---- MODULE Spec2Model ----
(***************************************************************************)
(* A model of the account pool (src/account_manager.py,                    *)
(* TelegramAccountManager) and of the event-driven forwarding engine       *)
(* (src/forwarding_manager.py, TelegramForwardingManager).                 *)
(*                                                                         *)
(* Where a class defines a method twice, the later definition is the one   *)
(* Python binds, and it is the one modelled.                               *)
(*                                                                         *)
(* Reading conventions.  Names that the source uses without binding them   *)
(* (timezone, Path, Tuple, Optional, types in forwarding_manager.py; the   *)
(* attribute `config` of TelegramAccountManager, which __init__ stores as  *)
(* `_config`) are read as what they denote, so that the logic of the       *)
(* methods can be examined.  A block of code without an await is one       *)
(* step; a coroutine is split at the awaits that matter for the            *)
(* properties checked (the inter-destination sleep of the fan-out).        *)
(* Strings are sequences of one-character strings.  A Python None of an    *)
(* object reference is 0, a None or empty keyword list is << >>.           *)
(***************************************************************************)
EXTENDS Integers, Sequences, FiniteSets, TLC

(***************************************************************************)
(* Bounds of the model.                                                    *)
(***************************************************************************)
MaxRules == 1       \* rows ever inserted into forwarding_rules
MaxMsg == 1         \* source messages delivered to the account's handle
MaxHandlers == 2    \* event handlers ever registered on a handle
MaxHandles == 2     \* TelegramClient objects ever stored by the pool
MaxObjs == 2        \* account dictionaries ever created by the pool
MaxNow == 3         \* clock ticks
MaxErr == 5         \* cap of the error counter in the model
MaxInFlight == 1    \* updates being dispatched at the same time
MaxErrLog == 1      \* rows of forwarding_errors the model follows
DailyLimit == 2     \* the configured 'daily_limit' (45 by default)
TicksPerDay == 2    \* clock ticks that make one calendar day

(***************************************************************************)
(* Program constants.                                                      *)
(***************************************************************************)
NoTime == 0 - 1         \* last_activity = None
FloodTicks == 1         \* the wait a FloodWaitError of connect() carries
ConnectErrorLimit == 5  \* connect_account: error_count >= 5
AuthErrorLimit == 3     \* complete_auth: error_count >= 3

(***************************************************************************)
(* Strings.                                                                *)
(***************************************************************************)
LowerChar(c) ==
    CASE c = "U" -> "u"
      [] c = "R" -> "r"
      [] c = "L" -> "l"
      [] OTHER -> c

\* str.lower()
Lower(s) == [i \in 1..Len(s) |-> LowerChar(s[i])]

\* sub in s
Contains(sub, s) ==
    \E i \in 0..(Len(s) - Len(sub)) : SubSeq(s, i + 1, i + Len(sub)) = sub

\* event.message.message or ""  -- the texts of the inbound messages
Texts == { <<"U", "r", "!">>, <<"l", "u">>, << >> }

\* keyword lists an operator may configure (None and [] are << >>)
KeywordChoices == { << >>, << <<"u", "R">> >> }

\* destination lists an operator may pass to create_forwarding_rule
DestChoices == { <<1, 2>>, <<2, 2>> }

Phone1 == <<"+", "1", "0">>
SourceChat == 7

RuleIds == 1..MaxRules

VARIABLES
    \* ---- account pool (TelegramAccountManager) ----
    accounts,           \* self.accounts: sequence of account objects
    acct,               \* the account dictionaries, by object id
    active_accounts,    \* self.active_accounts (sequence of object ids)
    limited_accounts,   \* self.limited_accounts (set of object ids)
    banned_accounts,    \* self.banned_accounts (set of object ids)
    clients,            \* self._clients: phone -> handle id
    \* ---- the protocol collaborator and the environment ----
    hconn,              \* handle id -> client.is_connected()
    authorized,         \* phone -> the stored session is authorized
    source_ok,          \* the source conversation resolves (get_entity)
    now,                \* the clock
    savedFile,          \* accounts.json as written by save_accounts
    \* ---- forwarding engine (TelegramForwardingManager) ----
    initialized,        \* self._initialized
    db_connection,      \* self.db_connection is not None
    forwarding_rules,   \* table forwarding_rules: id -> row
    nextRuleId,         \* AUTOINCREMENT of forwarding_rules
    forwarded_messages, \* table forwarded_messages (append-only)
    forwarding_errors,  \* table forwarding_errors (append-only)
    forwarding_sessions,\* self.forwarding_sessions: key -> session
    nextSid,            \* identity of the next session dictionary
    handlers,           \* event handlers registered on the handles
    dispatches,         \* updates being dispatched (handler coroutines)
    nextMsgId,          \* id of the next message of the source chat
    restartQ,           \* rules left in restart_active_rules_from_db
    \* ---- the reconnect supervisors and the session files ----
    reconnect_tasks,    \* self._reconnect_tasks, with each task's locals
    spawning,           \* _auto_reconnect_loop tasks created, not yet run
    session_files,      \* phones whose <phone>.session file exists
    shutdown,           \* self._shutdown_event.is_set()
    adding,             \* add_account calls awaiting their connection test
    connecting,         \* connect_account calls awaiting client.connect()
    \* ---- the supervisors at the grain of event-loop callbacks (SpecSup) ----
    reconnect_events,   \* self._reconnect_events: phone -> event
    event_set,          \* the asyncio.Event objects that are set
    task_of,            \* self._reconnect_tasks: phone -> task
    supervisors,        \* the _auto_reconnect_task tasks and their locals
    ready,              \* the ready queue of the event loop
    closing,            \* close() is suspended in a client.disconnect()
    \* ---- what the caller and the collaborator see ----
    ret,                \* the result of the last completed operation
    stopped             \* rules stopped and not started since

poolVars == <<accounts, acct, active_accounts, limited_accounts,
              banned_accounts, clients>>
envVars == <<hconn, authorized, source_ok, now, savedFile>>
engVars == <<initialized, db_connection, forwarding_rules, nextRuleId,
             forwarded_messages, forwarding_errors, forwarding_sessions,
             nextSid, handlers, dispatches, nextMsgId, restartQ>>
loopVars == <<reconnect_events, event_set, task_of, supervisors, ready,
             closing>>
lifeVars == <<reconnect_tasks, spawning, session_files, shutdown, adding,
             connecting, loopVars>>

\* no supervisor has been created and nothing is queued
InitLoop ==
    /\ reconnect_events = [p \in {} |-> 0]
    /\ event_set = {}
    /\ task_of = [p \in {} |-> 0]
    /\ supervisors = [t \in {} |-> 0]
    /\ ready = << >>
    /\ closing = FALSE
vars == <<poolVars, envVars, engVars, lifeVars, ret, stopped>>

(***************************************************************************)
(* Helpers on Python lists.                                                *)
(***************************************************************************)
InSeq(x, s) == \E i \in 1..Len(s) : s[i] = x

\* list.remove(x): the first occurrence goes
RemoveFirst(s, x) ==
    IF ~InSeq(x, s) THEN s
    ELSE LET i == CHOOSE k \in 1..Len(s) :
                      s[k] = x /\ \A j \in 1..(k - 1) : s[j] # x
         IN  SubSeq(s, 1, i - 1) \o SubSeq(s, i + 1, Len(s))

\* if x not in s: s.append(x)
AppendNew(s, x) == IF InSeq(x, s) THEN s ELSE Append(s, x)

\* a function extended or overwritten at one point (dict[k] = v)
Put(f, k, v) == [x \in (DOMAIN f) \cup {k} |-> IF x = k THEN v ELSE f[x]]

\* del dict[k]
Del(f, k) == [x \in (DOMAIN f) \ {k} |-> f[x]]

(***************************************************************************)
(* Account pool: look-ups.                                                 *)
(***************************************************************************)
\* get_account / get_account_by_phone: the first account with the phone
GetAccountByPhone(phone) ==
    LET idx == { i \in 1..Len(accounts) : acct[accounts[i]].phone = phone }
    IN  IF idx = {} THEN 0
        ELSE accounts[CHOOSE i \in idx : \A j \in idx : i <= j]

\* self._clients.get(phone)
ClientOf(reg, phone) == IF phone \in DOMAIN reg THEN reg[phone] ELSE 0

\* client.is_connected()
IsConnected(hc, h) == h \in DOMAIN hc /\ hc[h]

\* the identity of the next TelegramClient object
NewHandle == Cardinality(DOMAIN hconn) + 1

\* what `await client.connect()` can do
ConnectOutcomes == {"ok", "flood", "rpc", "exc"}

(***************************************************************************)
(* connect_account(phone): its result and the pool state it leaves.        *)
(* `co` is what the collaborator does to client.connect().                 *)
(***************************************************************************)
ConnectResult(phone, co) ==
    LET a == GetAccountByPhone(phone)
        same == [ok |-> FALSE, msg |-> "not found", acct |-> acct,
                 active |-> active_accounts, limited |-> limited_accounts,
                 clients |-> clients, hconn |-> hconn,
                 spawning |-> spawning]
    IN
    IF a = 0 THEN same
    ELSE IF acct[a].is_connected
    THEN [same EXCEPT !.ok = TRUE, !.msg = "already connected"]
    ELSE
      LET fresh == acct[a].client = 0
          h == IF fresh THEN NewHandle ELSE acct[a].client
          acct1 == [acct EXCEPT ![a].client = h]
          clients1 == IF fresh THEN Put(clients, phone, h) ELSE clients
          hconn1 == IF fresh THEN Put(hconn, h, FALSE) ELSE hconn
          base == [same EXCEPT !.acct = acct1, !.clients = clients1,
                               !.hconn = hconn1]
      IN
      CASE co = "ok" /\ authorized[phone] ->
             [base EXCEPT
                !.ok = TRUE, !.msg = "connected",
                !.acct = [acct1 EXCEPT ![a].is_connected = TRUE,
                                       ![a].status = "active"],
                !.active = AppendNew(active_accounts, a),
                !.limited = limited_accounts \ {a},
                !.hconn = Put(hconn1, h, TRUE),
                \* create_task(_auto_reconnect_loop(phone))
                !.spawning = IF phone \in DOMAIN reconnect_tasks
                             THEN spawning ELSE spawning \cup {phone}]
        [] co = "ok" /\ ~authorized[phone] ->
             \* client.disconnect(); the session is invalid
             [base EXCEPT !.msg = "session invalid",
                          !.hconn = Put(hconn1, h, FALSE)]
        [] co = "flood" ->
             [base EXCEPT
                !.msg = "flood wait",
                \* wait_time = e.seconds, kept in last_error: the wait
                \* ends at now + wait_time
                !.acct = [acct1 EXCEPT ![a].status = "flood_wait",
                                       ![a].flood_until = now + FloodTicks],
                !.active = RemoveFirst(active_accounts, a),
                !.limited = limited_accounts \cup {a}]
        [] co = "rpc" ->
             LET n == acct[a].error_count + 1 IN
             IF n >= ConnectErrorLimit
             THEN [base EXCEPT
                     !.msg = "rpc error",
                     !.acct = [acct1 EXCEPT ![a].error_count = n,
                                            ![a].status = "error"],
                     !.active = RemoveFirst(active_accounts, a),
                     !.limited = limited_accounts \cup {a}]
             ELSE [base EXCEPT
                     !.msg = "rpc error",
                     !.acct = [acct1 EXCEPT ![a].error_count = n]]
        [] OTHER ->
             [base EXCEPT
                !.msg = "failed to connect",
                !.acct = [acct1 EXCEPT
                            ![a].error_count = acct[a].error_count + 1],
                !.active = RemoveFirst(active_accounts, a),
                !.limited = limited_accounts \cup {a}]

\* the pool as it is, in the shape of a result of connect_account
PoolNow ==
    [ok |-> TRUE, msg |-> "", acct |-> acct, active |-> active_accounts,
     limited |-> limited_accounts, clients |-> clients, hconn |-> hconn,
     spawning |-> spawning]

\* if not client.is_connected(): await connect_account(account_phone)
Reconnect(c, phone, co) ==
    IF ~IsConnected(hconn, c) THEN ConnectResult(phone, co) ELSE PoolNow

(***************************************************************************)
(* Forwarding engine: the store.                                           *)
(***************************************************************************)
\* session_key = f"{account_phone}_{rule_id}"
SessionKey(phone, r) == <<phone, r>>

\* list(set(destination_chat_ids)): duplicates go; CPython iterates a set
\* of small integers in increasing order
RECURSIVE SortedSeq(_)
SortedSeq(S) ==
    IF S = {} THEN << >>
    ELSE LET m == CHOOSE x \in S : \A y \in S : x <= y
         IN  <<m>> \o SortedSeq(S \ {m})

Dedupe(s) == SortedSeq({ s[i] : i \in 1..Len(s) })

\* _update_rule_status_in_db(rule_id, status, error_message).  With an
\* error message the statement names the column last_error, which the
\* table created by setup_database does not have: sqlite3 raises
\* OperationalError, the method logs it, and the row is left as it was.
UpdateRuleStatus(tbl, init, db, r, status, with_message) ==
    IF ~(init /\ db) THEN tbl
    ELSE IF with_message THEN tbl
    ELSE IF r \in DOMAIN tbl THEN [tbl EXCEPT ![r].status = status]
    ELSE tbl

\* _update_rule_last_message_id_in_db(rule_id, message_id)
UpdateRuleLastMessageId(tbl, init, db, r, m) ==
    IF ~(init /\ db) THEN tbl
    ELSE IF r \in DOMAIN tbl THEN [tbl EXCEPT ![r].last_message_id = m]
    ELSE tbl

\* log_error(rule_id, account_phone, error_type, error_message)
LogError(errs, init, db, r, phone, type) ==
    IF ~(init /\ db) THEN errs
    ELSE Append(errs, [rule_id |-> r, account_phone |-> phone,
                       error_type |-> type])

\* log_forwarded_message(rule_id, account_phone, source, source_msg_id,
\*                       dest_chat_id, dest_msg_id, text)
LogForwardedMessage(log, init, db, r, phone, m, dest) ==
    IF ~(init /\ db) THEN log
    ELSE Append(log, [rule_id |-> r, account_phone |-> phone,
                      source_message_id |-> m,
                      destination_chat_id |-> dest])

\* a filter that lets every message through
KeywordMatchAlways(keywords, text) == TRUE

\* the keyword filter of forward_message_to_destinations:
\* if session['keywords']: any(k.lower() in text.lower() for k in keywords)
KeywordMatch(keywords, text) ==
    IF keywords = << >> THEN TRUE
    ELSE \E i \in 1..Len(keywords) :
            Contains(Lower(keywords[i]), Lower(text))

\* the guard that opens message_handler
HandlerGuard(sessT, key) ==
    key \in DOMAIN sessT /\ sessT[key].status = "running"

\* a start that never finds the rule running
AlreadyRunningNever(sessT, key) == FALSE

\* start_forwarding, lines 269-271: the session of the key exists and runs
AlreadyRunning(sessT, key) ==
    key \in DOMAIN sessT /\ sessT[key].status = "running"

\* start_forwarding when nothing has been started: the unchanged state
StartSame ==
    [ok |-> FALSE, msg |-> "Database not initialized.",
     entity |-> "not asked", rules |-> forwarding_rules,
     sessions |-> forwarding_sessions, handlers |-> handlers,
     errors |-> forwarding_errors, nextSid |-> nextSid, acct |-> acct,
     active |-> active_accounts, limited |-> limited_accounts,
     clients |-> clients, hconn |-> hconn, spawning |-> spawning]

\* start_forwarding from the authorization test on, and the
\* setup_forwarding_handler it awaits; cr is the pool after the connect
\* attempt
StartConnected(r, cr, authRaises) ==
  LET rule == forwarding_rules[r]
      phone == rule.account_phone
      key == SessionKey(phone, r)
  IN
  LET pool == [StartSame EXCEPT !.acct = cr.acct, !.active = cr.active,
                           !.limited = cr.limited,
                           !.clients = cr.clients,
                           !.hconn = cr.hconn,
                           !.spawning = cr.spawning]
      c1 == ClientOf(cr.clients, phone)
      up == IsConnected(cr.hconn, c1)
  IN
  IF ~cr.ok THEN [pool EXCEPT !.msg = "Failed to connect account"]
  ELSE IF c1 = 0
  THEN [pool EXCEPT !.msg = "Client unavailable after reconnect"]
  ELSE IF ~up /\ authRaises
  THEN \* the except branch of start_forwarding
       [pool EXCEPT
          !.msg = "Error",
          !.errors = LogError(forwarding_errors, TRUE, TRUE, r,
                              phone, "start_error"),
          !.rules = [forwarding_rules EXCEPT ![r].status = "error"]]
  ELSE IF up /\ ~authorized[phone]
  THEN [pool EXCEPT !.msg = "Account is not authorized."]
  ELSE
    LET rules1 == [forwarding_rules EXCEPT ![r].status = "running"]
        sess == [rule_id |-> r, sid |-> nextSid, phone |-> phone,
                 client |-> c1,
                 source_chat_id |-> rule.source_chat_id,
                 destination_chat_ids |-> rule.destination_chat_ids,
                 keywords |-> rule.keywords,
                 status |-> "running",
                 messages_forwarded |-> rule.messages_forwarded,
                 last_message_id |-> rule.last_message_id]
    IN
    IF up /\ source_ok
    THEN \* get_entity succeeds: the handler is registered
         [pool EXCEPT
            !.ok = TRUE, !.msg = "Forwarding started successfully.",
            !.entity = "found",
            !.rules = rules1,
            !.sessions = Put(forwarding_sessions, key, sess),
            !.handlers = Append(handlers,
                                [client |-> c1, key |-> key]),
            !.nextSid = nextSid + 1]
    ELSE \* get_entity raises: setup_forwarding_handler logs the
         \* error, marks the session and returns normally
         [pool EXCEPT
            !.ok = TRUE, !.msg = "Forwarding started successfully.",
            !.entity = "unreachable",
            !.rules = UpdateRuleStatus(rules1, TRUE, TRUE, r,
                                       "error", TRUE),
            !.sessions = Put(forwarding_sessions, key,
                             [sess EXCEPT !.status = "error"]),
            !.errors = LogError(forwarding_errors, TRUE, TRUE, r,
                          phone,
                          IF up THEN "source_chat_inaccessible"
                                ELSE "source_chat_error"),
            !.nextSid = nextSid + 1]

(***************************************************************************)
(* start_forwarding(rule_id), with the setup_forwarding_handler it         *)
(* awaits: its result and the state it leaves.  `co` is what the           *)
(* collaborator does to a connect attempt, `authRaises` whether            *)
(* is_user_authorized() on a handle that is not connected raises (it may   *)
(* also answer from its cache).  `entity` tells what get_entity did.       *)
(***************************************************************************)
StartResult(r, co, authRaises) ==
    IF ~(initialized /\ db_connection) THEN StartSame
    ELSE IF r \notin DOMAIN forwarding_rules
    THEN [StartSame EXCEPT !.msg = "Rule not found"]
    ELSE
      LET rule == forwarding_rules[r]
          phone == rule.account_phone
          key == SessionKey(phone, r)
          a == GetAccountByPhone(phone)
          c0 == ClientOf(clients, phone)
      IN
      IF AlreadyRunning(forwarding_sessions, key)
      THEN [StartSame EXCEPT !.ok = TRUE,
                        !.msg = "Forwarding already running for this rule."]
      ELSE IF a = 0 \/ c0 = 0
      THEN [StartSame EXCEPT !.msg = "Account or its client not available"]
      ELSE
        StartConnected(r, Reconnect(c0, phone, co), authRaises)

\* the result of an operation, as its caller sees it
Result(op, r, phone, ok, msg) ==
    [op |-> op, rule |-> r, phone |-> phone, ok |-> ok, msg |-> msg,
     entity |-> "not asked", account |-> 0, code |-> "none",
     password |-> "none"]

NoResult == Result("none", 0, << >>, FALSE, "")

(***************************************************************************)
(* stop_forwarding(rule_id, update_db): the session table and the rule     *)
(* table it leaves.  It always returns (True, ...).                        *)
(***************************************************************************)
SessionKeysOfRule(sessT, r) == { k \in DOMAIN sessT : sessT[k].rule_id = r }

\* a stop that leaves the session in the table
StopSessionsKeeps(sessT, r) == sessT

StopSessions(sessT, r) ==
    IF SessionKeysOfRule(sessT, r) = {} THEN sessT
    ELSE Del(sessT, CHOOSE k \in SessionKeysOfRule(sessT, r) : TRUE)

\* a stop that does not write the status
StopRulesSkips(rulesT, init, db, r, update_db) == rulesT

\* stop_forwarding, lines 525-526: the persisted status
StopRules(rulesT, init, db, r, update_db) ==
    IF update_db /\ init /\ db
    THEN UpdateRuleStatus(rulesT, init, db, r, "stopped", FALSE)
    ELSE rulesT

\* close(): stop_forwarding(rule_id, update_db=False) for every session
\* whose status is running
RunningRuleIds(sessT) ==
    { sessT[k].rule_id : k \in { x \in DOMAIN sessT :
                                   sessT[x].status = "running" } }

RECURSIVE StopAll(_, _)
StopAll(sessT, ids) ==
    IF ids = {} THEN sessT
    ELSE LET r == CHOOSE x \in ids : TRUE
         IN  StopAll(StopSessions(sessT, r), ids \ {r})

\* restart_active_rules_from_db(): the rules it will try to start, in the
\* order of get_forwarding_rules (created_at DESC); nothing unless the
\* manager is initialized
RECURSIVE RunningIdsDesc(_, _)
RunningIdsDesc(rulesT, S) ==
    IF S = {} THEN << >>
    ELSE LET m == CHOOSE x \in S : \A y \in S : y <= x
         IN  (IF rulesT[m].status = "running" THEN <<m>> ELSE << >>)
             \o RunningIdsDesc(rulesT, S \ {m})

RestartList(init, db, rulesT) ==
    IF ~(init /\ db) THEN << >>
    ELSE RunningIdsDesc(rulesT, DOMAIN rulesT)

(***************************************************************************)
(* The fan-out: message_handler and forward_message_to_destinations.       *)
(***************************************************************************)
\* what `await client.forward_messages(...)` can do on a connected handle
ForwardOutcomes == {"ok", "none", "flood", "forbidden", "peer_invalid",
                    "error"}

\* 'max_flood_wait' of DEFAULT_CONFIG, in seconds
MaxFloodWait == 24 * 60 * 60

\* the seconds added to the wait a FloodWaitError carries (line 420)
FloodBuffer == 5

\* the waits (e.seconds) a FloodWaitError of forward_messages carries
FloodSeconds == {30, MaxFloodWait}

\* the local variables of one run of forward_message_to_destinations
Invocation(key, s) ==
    [key |-> key, rule_id |-> s.rule_id, phone |-> s.phone, sid |-> s.sid,
     client |-> s.client, dests |-> s.destination_chat_ids,
     i |-> 1, succ |-> 0, slept |-> 0]

\* a loop that a failure at one destination ends
NextIndexAborts(i, n, failed) == IF failed THEN n + 1 ELSE i + 1

\* the for loop: the try/except lies inside it, so whatever happens at a
\* destination the loop goes on with the next one
NextIndex(i, n, failed) == i + 1

\* the session dictionary a run holds is still the one in the table
Holds(sessT, inv) ==
    inv.key \in DOMAIN sessT /\ sessT[inv.key].sid = inv.sid

\* lines 432-445: the counter and the checkpoint after the loop
FinalizeRules(inv, m, rulesT, init, db) ==
    LET r == inv.rule_id
        rules1 == IF inv.succ > 0 /\ db /\ r \in DOMAIN rulesT
                  THEN [rulesT EXCEPT
                          ![r].messages_forwarded = @ + inv.succ]
                  ELSE rulesT
    IN  UpdateRuleLastMessageId(rules1, init, db, r, m)

FinalizeSessions(inv, m, sessT, db) ==
    IF ~Holds(sessT, inv) THEN sessT
    ELSE [sessT EXCEPT
            ![inv.key].messages_forwarded =
                IF inv.succ > 0 /\ db THEN @ + inv.succ ELSE @,
            ![inv.key].last_message_id = m]

\* The handlers of one update run one after the other in one task.
\* Advance runs them up to the first await: a handler that returns at its
\* guard or at the keyword filter changes nothing, the first that passes
\* both suspends in the sleep before its first destination.
RECURSIVE Advance(_, _, _, _, _)
Advance(d, rulesT, sessT, init, db) ==
    IF d.pending = << >>
    THEN [d |-> d, done |-> TRUE, rules |-> rulesT, sessions |-> sessT]
    ELSE
      LET k == Head(d.pending)
          rest == [d EXCEPT !.pending = Tail(d.pending)]
      IN
      IF HandlerGuard(sessT, k) /\ KeywordMatch(sessT[k].keywords, d.text)
      THEN
        LET inv == Invocation(k, sessT[k]) IN
        IF inv.dests = << >>
        THEN Advance(rest,
                     FinalizeRules(inv, d.msg_id, rulesT, init, db),
                     FinalizeSessions(inv, d.msg_id, sessT, db),
                     init, db)
        ELSE [d |-> [rest EXCEPT !.cur = <<inv>>], done |-> FALSE,
              rules |-> rulesT, sessions |-> sessT]
      ELSE Advance(rest, rulesT, sessT, init, db)

\* the keys of the handlers registered on handle h, in registration order
RECURSIVE HandlerKeys(_, _)
HandlerKeys(hs, h) ==
    IF hs = << >> THEN << >>
    ELSE (IF Head(hs).client = h THEN <<Head(hs).key>> ELSE << >>)
         \o HandlerKeys(Tail(hs), h)

\* A new message of the source chat reaches handle h: the client creates
\* the task that will call the handlers registered on h.
Deliver(h, text) ==
    /\ nextMsgId <= MaxMsg
    /\ Cardinality(dispatches) < MaxInFlight
    /\ IsConnected(hconn, h)
    /\ HandlerKeys(handlers, h) # << >>
    /\ dispatches' = dispatches \cup
           {[msg_id |-> nextMsgId, text |-> text, fresh |-> TRUE,
             pending |-> HandlerKeys(handlers, h), cur |-> << >>]}
    /\ nextMsgId' = nextMsgId + 1
    /\ UNCHANGED <<lifeVars,
                   poolVars, envVars, initialized, db_connection,
                   forwarding_rules, nextRuleId, forwarded_messages,
                   forwarding_errors, forwarding_sessions, nextSid,
                   handlers, restartQ, ret, stopped>>

\* the task of an update starts to run: the handlers are called
RunHandlers(d) ==
    /\ d \in dispatches
    /\ d.fresh
    /\ \E adv \in {Advance([d EXCEPT !.fresh = FALSE], forwarding_rules,
                           forwarding_sessions, initialized,
                           db_connection)} :
           /\ dispatches' = (dispatches \ {d})
                            \cup (IF adv.done THEN {} ELSE {adv.d})
           /\ forwarding_rules' = adv.rules
           /\ forwarding_sessions' = adv.sessions
    /\ UNCHANGED <<lifeVars,
                   poolVars, envVars, initialized, db_connection,
                   nextRuleId, forwarded_messages, forwarding_errors,
                   nextSid, handlers, nextMsgId, restartQ, ret, stopped>>

\* One turn of the destination loop (lines 395-430), entered after the
\* inter-destination sleep.  `fo` is what forward_messages does, `cr` the
\* pool after the reconnect attempt, if one was needed.  The result: the
\* audit tables, the loop variables and the pool state after the turn.
\* `secs` is the wait a FloodWaitError carries; `slept` is the sleep the
\* turn ends in.
ForwardTurn(inv, m, fo, secs, cr) ==
    LET dest == inv.dests[inv.i]
        r == inv.rule_id
        n == Len(inv.dests)
        down == ~IsConnected(hconn, inv.client)
        client1 == IF down /\ cr.ok THEN ClientOf(cr.clients, inv.phone)
                   ELSE inv.client
        out(failed) ==
            [log |-> forwarded_messages, errors |-> forwarding_errors,
             inv |-> [inv EXCEPT !.i = NextIndex(inv.i, n, failed),
                                 !.client = client1,
                                 !.slept = 0],
             flood |-> FALSE, cr |-> cr]
        err(type) ==
            [out(TRUE) EXCEPT
               !.errors = LogError(forwarding_errors, initialized,
                                   db_connection, r, inv.phone, type)]
    IN
    IF down /\ ~cr.ok THEN err("client_disconnected")
    ELSE IF client1 = 0 THEN out(FALSE)
    ELSE IF ~IsConnected(cr.hconn, client1)
    THEN \* forward_messages on a handle that is not connected raises
         err("general_forward_error")
    ELSE
      CASE fo = "ok" ->
             [out(FALSE) EXCEPT
                !.log = LogForwardedMessage(forwarded_messages, initialized,
                                            db_connection, r, inv.phone,
                                            m, dest),
                !.inv = [@ EXCEPT !.succ = @ + 1]]
        [] fo = "none" -> out(FALSE)
        [] fo = "flood" ->
             [err("flood_wait") EXCEPT !.flood = TRUE,
                                       !.inv.slept = secs + FloodBuffer]
        [] fo = "forbidden" -> err("permission_error")
        [] fo = "peer_invalid" -> err("peer_invalid")
        [] OTHER -> err("general_forward_error")

ForwardStep(d, fo, co) ==
    /\ d \in dispatches
    /\ d.cur # << >>
    /\ d.cur[1].i <= Len(d.cur[1].dests)
    /\ \E secs \in IF fo = "flood" THEN FloodSeconds ELSE {0} :
       \E t \in {ForwardTurn(d.cur[1], d.msg_id, fo, secs,
                             Reconnect(d.cur[1].client, d.cur[1].phone,
                                       co))} :
       \E adv \in {Advance([d EXCEPT !.cur = << >>],
                           FinalizeRules(t.inv, d.msg_id, forwarding_rules,
                                         initialized, db_connection),
                           FinalizeSessions(t.inv, d.msg_id,
                                            forwarding_sessions,
                                            db_connection),
                           initialized, db_connection)} :
       LET last == t.inv.i > Len(t.inv.dests) IN
       /\ Len(t.errors) <= MaxErrLog
       /\ Cardinality(DOMAIN t.cr.hconn) <= MaxHandles
       /\ \A a \in DOMAIN t.cr.acct : t.cr.acct[a].error_count <= MaxErr
       /\ forwarded_messages' = t.log
       /\ forwarding_errors' = t.errors
       /\ acct' = t.cr.acct
       /\ active_accounts' = t.cr.active
       /\ limited_accounts' = t.cr.limited
       /\ clients' = t.cr.clients
       /\ hconn' = t.cr.hconn
       /\ spawning' = t.cr.spawning
       /\ IF last /\ ~t.flood
          THEN \* no await between the last turn and the checkpoint
               /\ forwarding_rules' = adv.rules
               /\ forwarding_sessions' = adv.sessions
               /\ dispatches' = (dispatches \ {d})
                                \cup (IF adv.done THEN {} ELSE {adv.d})
          ELSE /\ UNCHANGED <<forwarding_rules, forwarding_sessions>>
               /\ dispatches' = (dispatches \ {d})
                                \cup {[d EXCEPT !.cur = <<t.inv>>]}
    /\ UNCHANGED <<shutdown, adding, connecting, loopVars, reconnect_tasks, session_files,
                   accounts, banned_accounts, authorized, source_ok, now,
                   savedFile, initialized, db_connection, nextRuleId,
                   nextSid, handlers, nextMsgId, restartQ, ret, stopped>>

\* the end of the loop after the sleep of a rate limit at the last
\* destination: the counter, the checkpoint, then the next handler
FinishFanout(d) ==
    /\ d \in dispatches
    /\ d.cur # << >>
    /\ d.cur[1].i > Len(d.cur[1].dests)
    /\ \E adv \in {Advance([d EXCEPT !.cur = << >>],
                           FinalizeRules(d.cur[1], d.msg_id,
                                         forwarding_rules, initialized,
                                         db_connection),
                           FinalizeSessions(d.cur[1], d.msg_id,
                                            forwarding_sessions,
                                            db_connection),
                           initialized, db_connection)} :
           /\ forwarding_rules' = adv.rules
           /\ forwarding_sessions' = adv.sessions
           /\ dispatches' = (dispatches \ {d})
                            \cup (IF adv.done THEN {} ELSE {adv.d})
    /\ UNCHANGED <<lifeVars,
                   poolVars, envVars, initialized, db_connection,
                   nextRuleId, forwarded_messages, forwarding_errors,
                   nextSid, handlers, nextMsgId, restartQ, ret, stopped>>

(***************************************************************************)
(* Operations of the forwarding engine.                                    *)
(***************************************************************************)
Returns(r) == ret' = r

\* initialize(): restart_active_rules_from_db() runs before
\* self._initialized is set
Initialize ==
    /\ IF initialized
       THEN UNCHANGED <<db_connection, restartQ>>
       ELSE /\ db_connection' = TRUE
            /\ restartQ' = restartQ
                           \o RestartList(initialized, TRUE, forwarding_rules)
    /\ initialized' = TRUE
    /\ Returns(Result("initialize", 0, << >>, TRUE,
                      IF initialized THEN "already initialized"
                      ELSE "initialized"))
    /\ UNCHANGED stopped
    /\ UNCHANGED <<lifeVars,
                   poolVars, envVars, forwarding_rules, nextRuleId,
                   forwarded_messages, forwarding_errors,
                   forwarding_sessions, nextSid, handlers, dispatches,
                   nextMsgId>>

\* close()
Close ==
    /\ forwarding_sessions' =
           StopAll(forwarding_sessions, RunningRuleIds(forwarding_sessions))
    /\ db_connection' = FALSE
    /\ initialized' = FALSE
    /\ Returns(Result("close", 0, << >>, TRUE, ""))
    /\ stopped' = stopped \cup RunningRuleIds(forwarding_sessions)
    /\ UNCHANGED <<lifeVars,
                   poolVars, envVars, forwarding_rules, nextRuleId,
                   forwarded_messages, forwarding_errors, nextSid, handlers,
                   dispatches, nextMsgId, restartQ>>

\* create_forwarding_rule(account_phone, source, name, destinations, keywords)
CreateRule(phone, dests, kws) ==
    /\ nextRuleId <= MaxRules
    /\ IF initialized /\ db_connection
       THEN /\ forwarding_rules' =
                  Put(forwarding_rules, nextRuleId,
                      [account_phone |-> phone,
                       source_chat_id |-> SourceChat,
                       destination_chat_ids |-> Dedupe(dests),
                       keywords |-> kws,
                       status |-> "stopped",
                       last_message_id |-> 0,
                       messages_forwarded |-> 0])
            /\ nextRuleId' = nextRuleId + 1
            /\ Returns(Result("create_forwarding_rule", nextRuleId, phone,
                              TRUE, ""))
       ELSE /\ UNCHANGED <<forwarding_rules, nextRuleId>>
            /\ Returns(Result("create_forwarding_rule", 0, phone, FALSE,
                              "Database not initialized."))
    /\ UNCHANGED stopped
    /\ UNCHANGED <<lifeVars,
                   poolVars, envVars, initialized, db_connection,
                   forwarded_messages, forwarding_errors,
                   forwarding_sessions, nextSid, handlers, dispatches,
                   nextMsgId, restartQ>>

\* start_forwarding(rule_id)
StartForwarding(r) ==
    \E co \in ConnectOutcomes, ar \in BOOLEAN :
      \E res \in {StartResult(r, co, ar)} :
      /\ Len(res.handlers) <= MaxHandlers
      /\ Len(res.errors) <= MaxErrLog
      /\ Cardinality(DOMAIN res.hconn) <= MaxHandles
      /\ \A a \in DOMAIN res.acct : res.acct[a].error_count <= MaxErr
      /\ forwarding_rules' = res.rules
      /\ forwarding_sessions' = res.sessions
      /\ handlers' = res.handlers
      /\ forwarding_errors' = res.errors
      /\ nextSid' = res.nextSid
      /\ acct' = res.acct
      /\ active_accounts' = res.active
      /\ limited_accounts' = res.limited
      /\ clients' = res.clients
      /\ hconn' = res.hconn
      /\ spawning' = res.spawning
      /\ Returns([Result("start_forwarding", r, << >>, res.ok, res.msg)
                    EXCEPT !.entity = res.entity])
      /\ stopped' = IF res.ok THEN stopped \ {r} ELSE stopped
      /\ UNCHANGED <<shutdown, adding, connecting, loopVars, reconnect_tasks, session_files,
                     accounts, banned_accounts, authorized, source_ok, now,
                     savedFile, initialized, db_connection, nextRuleId,
                     forwarded_messages, dispatches, nextMsgId, restartQ>>

\* stop_forwarding(rule_id, update_db)
StopForwarding(r, update_db) ==
    /\ forwarding_sessions' = StopSessions(forwarding_sessions, r)
    /\ forwarding_rules' = StopRules(forwarding_rules, initialized,
                                     db_connection, r, update_db)
    /\ Returns(Result("stop_forwarding", r, << >>, TRUE,
                      "Forwarding stopped successfully."))
    /\ stopped' = stopped \cup {r}
    /\ UNCHANGED <<lifeVars,
                   poolVars, envVars, initialized, db_connection,
                   nextRuleId, forwarded_messages, forwarding_errors,
                   nextSid, handlers, dispatches, nextMsgId, restartQ>>

\* a DELETE that removes nothing
DeleteRowKeeps(rulesT, r) == rulesT

\* DELETE FROM forwarding_rules WHERE id = ?
DeleteRow(rulesT, r) ==
    IF r \in DOMAIN rulesT THEN Del(rulesT, r) ELSE rulesT

\* delete_forwarding_rule(rule_id)
DeleteRule(r) ==
    /\ IF ~(initialized /\ db_connection)
       THEN /\ UNCHANGED <<forwarding_sessions, forwarding_rules, stopped>>
            /\ Returns(Result("delete_forwarding_rule", r, << >>, FALSE,
                              "Database not initialized."))
       ELSE /\ forwarding_sessions' = StopSessions(forwarding_sessions, r)
            /\ stopped' = stopped \cup {r}
            /\ forwarding_rules' = DeleteRow(forwarding_rules, r)
            /\ Returns(Result("delete_forwarding_rule", r, << >>,
                              r \in DOMAIN forwarding_rules,
                              IF r \in DOMAIN forwarding_rules
                              THEN "deleted" ELSE "not found in database"))
    /\ UNCHANGED <<lifeVars,
                   poolVars, envVars, initialized, db_connection,
                   nextRuleId, forwarded_messages, forwarding_errors,
                   nextSid, handlers, dispatches, nextMsgId, restartQ>>

\* restart_active_rules_from_db(), called on its own: the rules to start
RestartActiveRules ==
    /\ restartQ = << >>
    /\ restartQ' = RestartList(initialized, db_connection, forwarding_rules)
    /\ restartQ' # << >>
    /\ UNCHANGED <<lifeVars,
                   poolVars, envVars, initialized, db_connection,
                   forwarding_rules, nextRuleId, forwarded_messages,
                   forwarding_errors, forwarding_sessions, nextSid,
                   handlers, dispatches, nextMsgId, ret, stopped>>

\* one turn of the loop of restart_active_rules_from_db
RestartStep ==
    /\ restartQ # << >>
    /\ \E co \in ConnectOutcomes, ar \in BOOLEAN :
         \E r \in {Head(restartQ)} : \E res \in {StartResult(r, co, ar)} :
         /\ Len(res.handlers) <= MaxHandlers
         /\ Len(res.errors) <= MaxErrLog
         /\ Cardinality(DOMAIN res.hconn) <= MaxHandles
         /\ \A a \in DOMAIN res.acct : res.acct[a].error_count <= MaxErr
         /\ forwarding_rules' =
               IF res.ok THEN res.rules
               ELSE UpdateRuleStatus(res.rules, initialized, db_connection,
                                     r, "error", TRUE)
         /\ forwarding_sessions' = res.sessions
         /\ handlers' = res.handlers
         /\ forwarding_errors' = res.errors
         /\ nextSid' = res.nextSid
         /\ acct' = res.acct
         /\ active_accounts' = res.active
         /\ limited_accounts' = res.limited
         /\ clients' = res.clients
         /\ hconn' = res.hconn
         /\ spawning' = res.spawning
         /\ stopped' = IF res.ok THEN stopped \ {r} ELSE stopped
    /\ restartQ' = Tail(restartQ)
    /\ IF Tail(restartQ) = << >>
       THEN Returns(Result("restart_active_rules_from_db", 0, << >>,
                           TRUE, ""))
       ELSE UNCHANGED ret
    /\ UNCHANGED <<shutdown, adding, connecting, loopVars, reconnect_tasks, session_files,
                   accounts, banned_accounts, authorized, source_ok, now,
                   savedFile, initialized, db_connection, nextRuleId,
                   forwarded_messages, dispatches, nextMsgId>>

(***************************************************************************)
(* The pool operations the engine relies on, and the environment.          *)
(***************************************************************************)
\* connect_account(phone), called by the operator or by the supervisor
ConnectAccount(phone, co) ==
    \E cr \in {ConnectResult(phone, co)} :
    /\ Cardinality(DOMAIN cr.hconn) <= MaxHandles
    /\ \A a \in DOMAIN cr.acct : cr.acct[a].error_count <= MaxErr
    /\ acct' = cr.acct
    /\ active_accounts' = cr.active
    /\ limited_accounts' = cr.limited
    /\ clients' = cr.clients
    /\ hconn' = cr.hconn
    /\ spawning' = cr.spawning
    /\ Returns(Result("connect_account", 0, phone, cr.ok, cr.msg))
    /\ UNCHANGED <<shutdown, adding, connecting, loopVars, reconnect_tasks, session_files,
                   accounts, banned_accounts, authorized, source_ok, now,
                   savedFile, engVars, stopped>>

\* remove_account(phone, delete_session): the handle is disconnected, the
\* session file is deleted on request and the account leaves the three
\* lists named in the code; self._clients, self.banned_accounts and
\* self._reconnect_tasks are not touched; a disconnect() that raises is
\* logged and may leave the link up
RemoveAccount(phone, delete_session) ==
    LET a == GetAccountByPhone(phone) IN
    /\ IF a = 0
       THEN /\ UNCHANGED <<accounts, active_accounts, limited_accounts,
                           hconn, session_files>>
            /\ Returns(Result("remove_account", 0, phone, FALSE,
                              "Account not found"))
       ELSE /\ \E raised \in BOOLEAN :
                 hconn' = IF IsConnected(hconn, acct[a].client) /\ ~raised
                          THEN [hconn EXCEPT ![acct[a].client] = FALSE]
                          ELSE hconn
            /\ session_files' = IF delete_session
                                THEN session_files \ {phone}
                                ELSE session_files
            /\ accounts' = RemoveFirst(accounts, a)
            /\ active_accounts' = RemoveFirst(active_accounts, a)
            /\ limited_accounts' = limited_accounts \ {a}
            /\ Returns(Result("remove_account", 0, phone, TRUE,
                              "Account removed successfully"))
    /\ UNCHANGED <<shutdown, adding, connecting, loopVars, acct, banned_accounts, clients, reconnect_tasks, spawning,
                   authorized, source_ok, now, savedFile, engVars, stopped>>

\* the link of a handle drops (the clients are built with
\* auto_reconnect=False)
LinkDrop(h) ==
    /\ IsConnected(hconn, h)
    /\ hconn' = [hconn EXCEPT ![h] = FALSE]
    /\ UNCHANGED <<lifeVars,
                   poolVars, authorized, source_ok, now, savedFile, engVars,
                   ret, stopped>>

\* the source conversation becomes unreachable, or reachable again
SourceChange ==
    /\ source_ok' = ~source_ok
    /\ UNCHANGED <<lifeVars,
                   poolVars, hconn, authorized, now, savedFile, engVars,
                   ret, stopped>>

(***************************************************************************)
(* The forwarding engine over a pool of one account.                       *)
(***************************************************************************)
\* an account dictionary as a successful add_account leaves it at time t
NewAccount(phone, t) ==
    [phone |-> phone, status |-> "active", client |-> 0,
     is_connected |-> FALSE, error_count |-> 0, added_today |-> 0,
     last_reset |-> [kind |-> "date", day |-> t \div TicksPerDay],
     last_activity |-> t, flood_until |-> NoTime]

\* a supervisor as _auto_reconnect_loop creates it: the task waits for its
\* event with reconnect_attempts = 0 (delay: the last delay it slept;
\* last: what its last reconnect attempt returned)
NewSupervisor ==
    [attempts |-> 0, event |-> FALSE, pc |-> "wait", delay |-> 0,
     last |-> "none"]

\* self._reconnect_tasks = {}
NoTasks == [p \in {} |-> 0]

\* accounts.json does not exist
NoFile == [exists |-> FALSE, rows |-> << >>]

\* The pool holds one account.  Either _load_accounts_async restored it at
\* start-up (it has a connected, registered handle), or add_account added
\* it (no handle yet).
InitFwd ==
    /\ accounts = <<1>>
    /\ \E loaded \in BOOLEAN :
         /\ acct = [a \in {1} |->
                      IF loaded
                      THEN [NewAccount(Phone1, 0) EXCEPT !.client = 1,
                                                      !.is_connected = TRUE]
                      ELSE NewAccount(Phone1, 0)]
         /\ clients = IF loaded THEN [p \in {Phone1} |-> 1]
                      ELSE [p \in {} |-> 0]
         /\ hconn = IF loaded THEN [h \in {1} |-> TRUE]
                    ELSE [h \in {} |-> FALSE]
         /\ reconnect_tasks = IF loaded THEN [p \in {Phone1} |-> NewSupervisor]
                              ELSE NoTasks
    /\ spawning = {}
    /\ session_files = {Phone1}
    /\ shutdown = FALSE
    /\ adding = << >>
    /\ connecting = << >>
    /\ InitLoop
    /\ active_accounts = <<1>>
    /\ limited_accounts = {}
    /\ banned_accounts = {}
    /\ authorized = [p \in {Phone1} |-> TRUE]
    /\ source_ok = TRUE
    /\ now = 0
    /\ savedFile = NoFile
    /\ initialized = FALSE
    /\ db_connection = FALSE
    /\ forwarding_rules = [r \in {} |-> 0]
    /\ nextRuleId = 1
    /\ forwarded_messages = << >>
    /\ forwarding_errors = << >>
    /\ forwarding_sessions = [k \in {} |-> 0]
    /\ nextSid = 1
    /\ handlers = << >>
    /\ dispatches = {}
    /\ nextMsgId = 1
    /\ restartQ = << >>
    /\ ret = NoResult
    /\ stopped = {}

NextFwd ==
    \/ Initialize
    \/ Close
    \/ CreateRule(Phone1, <<2, 2>>, << >>)
    \/ \E r \in RuleIds : StartForwarding(r)
    \/ \E r \in RuleIds : StopForwarding(r, TRUE)
    \/ \E r \in RuleIds : DeleteRule(r)
    \/ RestartActiveRules
    \/ RestartStep
    \/ \E h \in DOMAIN hconn : Deliver(h, <<"l", "u">>)
    \/ \E d \in dispatches : RunHandlers(d)
    \/ \E d \in dispatches, fo \in {"ok", "forbidden"},
          co \in ConnectOutcomes : ForwardStep(d, fo, co)
    \/ \E co \in {"ok", "flood"} : ConnectAccount(Phone1, co)
    \/ \E h \in DOMAIN hconn : LinkDrop(h)
    \/ SourceChange

SpecFwd == InitFwd /\ [][NextFwd]_vars

(***************************************************************************)
(* The fan-out of a started rule.  The state at the start is the one       *)
(* initialize(), create_forwarding_rule(Phone1, source, name, dests, kws)  *)
(* and start_forwarding(1) leave behind on an account that                 *)
(* _load_accounts_async restored.                                          *)
(***************************************************************************)
StartedRule(dests, kws) ==
    [account_phone |-> Phone1, source_chat_id |-> SourceChat,
     destination_chat_ids |-> Dedupe(dests), keywords |-> kws,
     status |-> "running", last_message_id |-> 0, messages_forwarded |-> 0]

StartedSession(rule) ==
    [rule_id |-> 1, sid |-> 1, phone |-> Phone1, client |-> 1,
     source_chat_id |-> rule.source_chat_id,
     destination_chat_ids |-> rule.destination_chat_ids,
     keywords |-> rule.keywords, status |-> "running",
     messages_forwarded |-> 0, last_message_id |-> 0]

InitFan ==
    /\ accounts = <<1>>
    /\ acct = [a \in {1} |-> [NewAccount(Phone1, 0) EXCEPT
                                !.client = 1, !.is_connected = TRUE]]
    /\ clients = [p \in {Phone1} |-> 1]
    /\ hconn = [h \in {1} |-> TRUE]
    /\ reconnect_tasks = [p \in {Phone1} |-> NewSupervisor]
    /\ spawning = {}
    /\ session_files = {Phone1}
    /\ shutdown = FALSE
    /\ adding = << >>
    /\ connecting = << >>
    /\ InitLoop
    /\ active_accounts = <<1>>
    /\ limited_accounts = {}
    /\ banned_accounts = {}
    /\ authorized = [p \in {Phone1} |-> TRUE]
    /\ source_ok = TRUE
    /\ now = 0
    /\ savedFile = NoFile
    /\ initialized = TRUE
    /\ db_connection = TRUE
    /\ \E dests \in DestChoices, kws \in KeywordChoices :
         /\ forwarding_rules = [r \in {1} |-> StartedRule(dests, kws)]
         /\ forwarding_sessions =
               [k \in {SessionKey(Phone1, 1)} |->
                  StartedSession(StartedRule(dests, kws))]
    /\ nextRuleId = 2
    /\ forwarded_messages = << >>
    /\ forwarding_errors = << >>
    /\ nextSid = 2
    /\ handlers = <<[client |-> 1, key |-> SessionKey(Phone1, 1)]>>
    /\ dispatches = {}
    /\ nextMsgId = 1
    /\ restartQ = << >>
    /\ ret = [Result("start_forwarding", 1, << >>, TRUE,
                     "Forwarding started successfully.")
                EXCEPT !.entity = "found"]
    /\ stopped = {}

NextFan ==
    \/ \E h \in DOMAIN hconn, text \in Texts : Deliver(h, text)
    \/ \E d \in dispatches : RunHandlers(d)
    \/ \E d \in dispatches, fo \in ForwardOutcomes, co \in ConnectOutcomes :
         ForwardStep(d, fo, co)
    \/ \E d \in dispatches : FinishFanout(d)
    \/ \E r \in RuleIds : StopForwarding(r, TRUE)
    \/ \E r \in RuleIds : StartForwarding(r)
    \/ Close
    \/ \E ds \in BOOLEAN : RemoveAccount(Phone1, ds)
    \/ \E h \in DOMAIN hconn : LinkDrop(h)

SpecFan == InitFan /\ [][NextFan]_vars

(***************************************************************************)
(* Properties of the forwarding engine.                                    *)
(***************************************************************************)
\* the rows of forwarded_messages of rule r and source message m
RecordsOf(r, m) ==
    { i \in 1..Len(forwarded_messages) :
        /\ forwarded_messages[i].rule_id = r
        /\ forwarded_messages[i].source_message_id = m }

\* the rows of forwarding_errors of rule r
ErrorsOf(errs, r) == { i \in 1..Len(errs) : errs[i].rule_id = r }

\* the handler invocation d2.cur began in this step
EnteredNow(d2) ==
    /\ d2 \in dispatches'
    /\ d2.cur # << >>
    /\ ~\E d \in dispatches :
          /\ d.msg_id = d2.msg_id
          /\ d.cur # << >>
          /\ d.pending = d2.pending

\* the fan-out d.cur ran to its end in this step
EndedNow(d) ==
    /\ d \in dispatches
    /\ d.cur # << >>
    /\ \A d2 \in dispatches' :
          d2.msg_id = d.msg_id => d2.cur = << >> \/ d2.pending # d.pending

\* C1: once stop_forwarding(r) has returned, and until r is started again,
\* no invocation of a handler of r begins a fan-out: it forwards to no
\* destination and appends no record, whatever messages arrive.
C1_StoppedRuleHandlerInert ==
    [][\A r \in stopped :
         /\ \A d2 \in dispatches' :
               EnteredNow(d2) => d2.cur[1].rule_id # r
         /\ (\A d \in dispatches : d.cur = << >> \/ d.cur[1].rule_id # r)
               => \A m \in 1..MaxMsg : RecordsOf(r, m)' = RecordsOf(r, m)
      ]_vars

\* a message reached the handler of a stopped rule, which has no keyword
\* filter, while the store was open: the handler ran and left no trace
C1_Witness ==
    \E r \in stopped :
        /\ r \in DOMAIN forwarding_rules
        /\ forwarding_rules[r].keywords = << >>
        /\ forwarding_rules[r].last_message_id = 0
        /\ initialized /\ db_connection
        /\ nextMsgId > 1
        /\ dispatches = {}
        /\ forwarded_messages = << >>
        /\ \E i \in 1..Len(handlers) : handlers[i].key[2] = r

\* C2: whatever start_forwarding / stop_forwarding calls were made on a
\* rule, one source message is forwarded at most once to each destination:
\* no two rows of forwarded_messages share rule, source message and
\* destination.
C2_ForwardedAtMostOnce ==
    \A i, j \in 1..Len(forwarded_messages) :
        i < j =>
          ~(/\ forwarded_messages[i].rule_id = forwarded_messages[j].rule_id
            /\ forwarded_messages[i].source_message_id =
                   forwarded_messages[j].source_message_id
            /\ forwarded_messages[i].destination_chat_id =
                   forwarded_messages[j].destination_chat_id)

\* C3: when initialize() has brought the engine up and nothing is left to
\* restart, every persisted rule whose status is running has a running
\* session with a handler; a rule whose re-activation failed is not left
\* with status running.
C3_RunningRulesRestartedOnBoot ==
    [][(~initialized /\ initialized' /\ restartQ' = << >>) =>
         \A r \in DOMAIN forwarding_rules' :
            forwarding_rules'[r].status = "running" =>
              LET key == SessionKey(forwarding_rules'[r].account_phone, r)
              IN  /\ HandlerGuard(forwarding_sessions', key)
                  /\ \E i \in 1..Len(handlers') : handlers'[i].key = key
      ]_vars

\* C5: when start_forwarding could not reach the source conversation, it
\* reports failure, the persisted status of the rule is error and no
\* running session of the rule exists.
C5_UnreachableSourceAborts ==
    (ret.op = "start_forwarding" /\ ret.entity = "unreachable") =>
        /\ ~ret.ok
        /\ ret.rule \in DOMAIN forwarding_rules
        /\ forwarding_rules[ret.rule].status = "error"
        /\ \A k \in SessionKeysOfRule(forwarding_sessions, ret.rule) :
              forwarding_sessions[k].status # "running"

\* C4: a fan-out ends only when its last destination has had its turn, the
\* loop never skips a destination whatever happened at the one before, and
\* when it ends (the store being open and the rule still there) the
\* checkpoint of the rule is the id of the triggering message, whatever
\* the number of successful destinations.
C4_FailureIsolatedCheckpointAdvances ==
    [][\A d \in dispatches :
         /\ EndedNow(d) =>
              /\ d.cur[1].i >= Len(d.cur[1].dests)
              /\ (initialized /\ db_connection
                    /\ d.cur[1].rule_id \in DOMAIN forwarding_rules)
                  => forwarding_rules'[d.cur[1].rule_id].last_message_id
                         = d.msg_id
         /\ \A d2 \in dispatches' :
               (d.cur # << >> /\ d2.cur # << >> /\ d2.msg_id = d.msg_id
                  /\ d2.pending = d.pending)
               => d2.cur[1].i \in {d.cur[1].i, d.cur[1].i + 1}
      ]_vars

\* the first of two destinations failed, the second received the message,
\* and the checkpoint is the id of the message
C4_Witness ==
    \E r \in DOMAIN forwarding_rules :
        /\ Len(forwarding_rules[r].destination_chat_ids) = 2
        /\ dispatches = {}
        /\ forwarding_rules[r].last_message_id = 1
        /\ ErrorsOf(forwarding_errors, r) # {}
        /\ \A i \in RecordsOf(r, 1) :
              forwarded_messages[i].destination_chat_id =
                  forwarding_rules[r].destination_chat_ids[2]
        /\ RecordsOf(r, 1) # {}

\* C9: one inbound message of a rule with N destinations adds at most N
\* rows to forwarded_messages and at most N to messages_forwarded (it adds
\* exactly N when every forward succeeds).
C9_OneMessageNRecords ==
    \A r \in DOMAIN forwarding_rules :
        LET n == Len(forwarding_rules[r].destination_chat_ids) IN
        /\ \A m \in 1..MaxMsg : Cardinality(RecordsOf(r, m)) <= n
        /\ forwarding_rules[r].messages_forwarded <= n * (nextMsgId - 1)

\* text contains keyword k, letter case ignored
ContainsIgnoringCase(k, text) ==
    \E o \in 0..(Len(text) - Len(k)) :
        \A j \in 1..Len(k) : LowerChar(text[o + j]) = LowerChar(k[j])

\* C10: when the handlers of a new message are called for a running rule
\* whose keyword list is not empty and none of whose keywords the text
\* contains, no fan-out of the rule begins for the message and the rows of
\* forwarded_messages and forwarding_errors of the rule, its
\* messages_forwarded and its checkpoint stay as they were.
C10_UnmatchedMessageChangesNothing ==
    [][\A d \in dispatches : \A k \in DOMAIN forwarding_sessions :
         LET s == forwarding_sessions[k]
             r == s.rule_id
         IN
         (/\ d.fresh
          /\ \A d2 \in dispatches' : d2.msg_id = d.msg_id => ~d2.fresh
          /\ s.status = "running"
          /\ s.keywords # << >>
          /\ \A i \in 1..Len(s.keywords) :
                ~ContainsIgnoringCase(s.keywords[i], d.text))
         =>
         /\ \A d2 \in dispatches' :
               d2.msg_id = d.msg_id =>
                  d2.cur = << >> \/ d2.cur[1].rule_id # r
         /\ \A m \in 1..MaxMsg : RecordsOf(r, m)' = RecordsOf(r, m)
         /\ ErrorsOf(forwarding_errors', r) = ErrorsOf(forwarding_errors, r)
         /\ forwarding_sessions'[k].messages_forwarded = s.messages_forwarded
         /\ forwarding_sessions'[k].last_message_id = s.last_message_id
         /\ r \in DOMAIN forwarding_rules =>
               /\ forwarding_rules'[r].messages_forwarded =
                      forwarding_rules[r].messages_forwarded
               /\ forwarding_rules'[r].last_message_id =
                      forwarding_rules[r].last_message_id
      ]_vars

\* a rule that has run without interruption under a keyword list has seen
\* a message and none of its state has moved
C10_Witness ==
    \E k \in DOMAIN forwarding_sessions :
        LET s == forwarding_sessions[k] IN
        /\ s.status = "running" /\ s.sid = 1
        /\ s.keywords # << >>
        /\ Len(handlers) = 1
        /\ s.rule_id \in DOMAIN forwarding_rules
        /\ forwarding_rules[s.rule_id].last_message_id = 0
        /\ forwarding_rules[s.rule_id].messages_forwarded = 0
        /\ initialized /\ db_connection
        /\ nextMsgId > 1
        /\ dispatches = {}
        /\ forwarded_messages = << >>
        /\ forwarding_errors = << >>

(***************************************************************************)
(* The account pool: registration, authentication, selection, and the      *)
(* accounts file.                                                          *)
(***************************************************************************)
Digits == {"0", "1", "2", "3", "4", "5", "6", "7", "8", "9"}

\* _validate_phone_number: re.match(r'^\+?[1-9]\d{1,14}$', phone); `$`
\* also matches before a newline that ends the string
ValidPhone(p) ==
    LET q == IF p # << >> /\ p[Len(p)] = "\n"
             THEN SubSeq(p, 1, Len(p) - 1) ELSE p
        body == IF q # << >> /\ q[1] = "+" THEN Tail(q) ELSE q IN
    /\ Len(body) >= 2
    /\ Len(body) <= 15
    /\ body[1] \in Digits \ {"0"}
    /\ \A i \in 2..Len(body) : body[i] \in Digits

Phone2 == <<"2", "0">>
BadPhone == <<"+", "0", "1">>
Phones == {Phone1, Phone2}

\* the calendar day of a clock reading: datetime.now().date()
Day(t) == t \div TicksPerDay

\* what the client of a connection test can meet: it connects, or Telethon
\* raises a flood wait, a banned phone number or another error
TestOutcomes == {"ok", "flood", "banned", "exc"}

\* the identity of the next account dictionary
NewObj == Cardinality(DOMAIN acct) + 1

\* add_account(phone, api_id, api_hash) with valid credentials, and the
\* _test_account_connection it awaits (the TelegramClient it builds opens
\* the session file of the phone)
AddAccount(phone, to) ==
    /\ NewObj <= MaxObjs
    /\ IF ~ValidPhone(phone)
       THEN /\ UNCHANGED <<accounts, acct, active_accounts, session_files>>
            /\ Returns(Result("add_account", 0, phone, FALSE,
                              "Invalid phone number format"))
       ELSE IF GetAccountByPhone(phone) # 0
       THEN /\ UNCHANGED <<accounts, acct, active_accounts, session_files>>
            /\ Returns(Result("add_account", 0, phone, FALSE,
                              "already exists"))
       ELSE IF to = "ok" /\ authorized[phone]
       THEN /\ session_files' = session_files \cup {phone}
            /\ acct' = Put(acct, NewObj, NewAccount(phone, now))
            /\ accounts' = Append(accounts, NewObj)
            /\ active_accounts' = Append(active_accounts, NewObj)
            /\ Returns([Result("add_account", 0, phone, TRUE,
                               "added successfully")
                          EXCEPT !.account = NewObj])
       ELSE /\ session_files' = session_files \cup {phone}
            /\ UNCHANGED <<accounts, acct, active_accounts>>
            /\ Returns(Result("add_account", 0, phone, FALSE,
                         IF to = "ok"
                         THEN "Account not authorized. Please sign in first."
                         ELSE "Connection failed"))
    /\ UNCHANGED <<shutdown, adding, connecting, loopVars, limited_accounts, banned_accounts, clients, envVars,
                   reconnect_tasks, spawning,
                   engVars, stopped>>

\* what client.sign_in can do on a connected handle
SignInOutcomes == {"ok", "password_needed", "rpc"}

\* the password argument of complete_auth: None, the 2FA password of the
\* account, or another string
Passwords == {"none", "correct", "wrong"}

\* the account table after a successful sign-in (lines 1529-1537)
Authenticated(a) ==
    [acct EXCEPT ![a].status = "active",
                 ![a].last_activity = now,
                 ![a].error_count = 0]

\* complete_auth(phone, code, password): `good` tells whether the code is
\* the one the service sent; the password is looked at only when
\* sign_in(code) raises SessionPasswordNeededError
CompleteAuth(phone, good, so) ==
    \E pw \in IF so = "password_needed" THEN Passwords ELSE {"none"} :
    LET a == GetAccountByPhone(phone)
        res(ok, msg) == [Result("complete_auth", 0, phone, ok, msg)
                           EXCEPT !.account = a,
                                  !.code = IF good THEN "correct"
                                           ELSE "wrong",
                                  !.password = pw]
    IN
    /\ IF a = 0 \/ acct[a].client = 0
       THEN /\ UNCHANGED <<acct, active_accounts, limited_accounts,
                           authorized>>
            /\ Returns(res(FALSE,
                           "Account not found or client not initialized"))
       ELSE IF IsConnected(hconn, acct[a].client) /\ ~good
       THEN /\ UNCHANGED <<acct, active_accounts, limited_accounts,
                           authorized>>
            /\ Returns(res(FALSE, "Invalid verification code"))
       ELSE IF IsConnected(hconn, acct[a].client) /\ so = "password_needed"
                 /\ pw # "correct"
       THEN /\ UNCHANGED <<acct, active_accounts, limited_accounts,
                           authorized>>
            /\ Returns(res(FALSE, IF pw = "none"
                                  THEN "2FA password required"
                                  ELSE "Invalid 2FA password"))
       ELSE IF IsConnected(hconn, acct[a].client)
                 /\ so \in {"ok", "password_needed"}
       THEN /\ authorized' = [authorized EXCEPT ![phone] = TRUE]
            /\ acct' = Authenticated(a)
            /\ active_accounts' = AppendNew(active_accounts, a)
            /\ UNCHANGED limited_accounts
            /\ Returns(res(TRUE, "Authentication completed successfully"))
       ELSE \* every attempt failed
            LET n == acct[a].error_count + 1 IN
            /\ n <= MaxErr
            /\ acct' = [acct EXCEPT ![a].status = "auth_failed",
                                    ![a].error_count = n,
                                    ![a].last_activity = now]
            /\ IF n >= AuthErrorLimit
               THEN /\ active_accounts' = RemoveFirst(active_accounts, a)
                    /\ limited_accounts' = limited_accounts \cup {a}
               ELSE UNCHANGED <<active_accounts, limited_accounts>>
            /\ UNCHANGED authorized
            /\ Returns(res(FALSE, "Authentication failed"))
    /\ UNCHANGED <<lifeVars,
                   accounts, banned_accounts, clients, hconn, source_ok, now,
                   savedFile, engVars, stopped>>

\* account.get('last_reset') != current_date: a datetime never equals a date
NeedsReset(a, today) ==
    ~(a.last_reset.kind = "date" /\ a.last_reset.day = today)

\* the accounts the loop of get_available_account looks at
Candidates ==
    { a \in DOMAIN acct :
        /\ InSeq(a, active_accounts)
        /\ acct[a].status = "active"
        /\ a \notin limited_accounts }

\* the account dictionaries after the loop: the counters of a new day reset
AfterReset(today) ==
    [a \in DOMAIN acct |->
        IF a \in Candidates /\ NeedsReset(acct[a], today)
        THEN [acct[a] EXCEPT !.added_today = 0,
                             !.last_reset = [kind |-> "date", day |-> today]]
        ELSE acct[a]]

\* the score: seconds since last_activity, infinite without one
Idler(x, y) ==
    \/ x.last_activity = NoTime
    \/ (y.last_activity # NoTime /\ x.last_activity <= y.last_activity)

\* the position of the first occurrence of a in the active list
Position(a) ==
    CHOOSE i \in 1..Len(active_accounts) :
        active_accounts[i] = a /\ \A j \in 1..(i - 1) : active_accounts[j] # a

\* available_accounts.sort(key=score, reverse=True)[0]: the sort is stable,
\* so of equal scores the first in self.active_accounts wins
Best(tbl, eligible) ==
    CHOOSE a \in eligible :
        \A b \in eligible :
            \/ ~Idler(tbl[b], tbl[a])
            \/ (Idler(tbl[a], tbl[b]) /\ Position(a) <= Position(b))

\* get_available_account()
GetAvailableAccount ==
    LET today == Day(now)
        tbl == AfterReset(today)
        eligible == { a \in Candidates : tbl[a].added_today < DailyLimit }
    IN
    /\ IF eligible = {}
       THEN /\ acct' = tbl
            /\ Returns(Result("get_available_account", 0, << >>, FALSE,
                              "No available accounts found"))
       ELSE LET best == Best(tbl, eligible) IN
            /\ acct' = [tbl EXCEPT ![best].last_activity = now,
                                   ![best].added_today = @ + 1]
            /\ Returns([Result("get_available_account", 0,
                               tbl[best].phone, TRUE, "")
                          EXCEPT !.account = best])
    /\ UNCHANGED <<lifeVars,
                   accounts, active_accounts, limited_accounts,
                   banned_accounts, clients, envVars, engVars, stopped>>

\* date.isoformat() / datetime.isoformat() of last_reset
IsoFormat(d) ==
    [form |-> IF d.kind = "date" THEN "YYYY-MM-DD"
              ELSE "YYYY-MM-DDTHH:MM:SS",
     day |-> d.day]

\* datetime.fromisoformat(text): a datetime, also from a date-only text
FromIsoFormat(text) == [kind |-> "datetime", day |-> text.day]

\* the entry save_accounts writes for an account
SavedRow(a) ==
    [phone |-> a.phone, added_today |-> a.added_today,
     last_reset |-> IsoFormat(a.last_reset), status |-> a.status,
     last_activity |-> a.last_activity, error_count |-> a.error_count]

\* save_accounts()
SaveAccounts ==
    /\ savedFile' = [exists |-> TRUE,
                     rows |-> [i \in 1..Len(accounts) |->
                                 SavedRow(acct[accounts[i]])]]
    /\ Returns(Result("save_accounts", 0, << >>, TRUE, ""))
    /\ UNCHANGED <<lifeVars,
                   poolVars, hconn, authorized, source_ok, now, engVars,
                   stopped>>

\* the account dictionary load_accounts builds from an entry
LoadedAccount(row) ==
    [phone |-> row.phone, status |-> row.status, client |-> 0,
     is_connected |-> FALSE, error_count |-> row.error_count,
     added_today |-> row.added_today,
     last_reset |-> FromIsoFormat(row.last_reset),
     last_activity |-> row.last_activity, flood_until |-> NoTime]

\* the members of a list of object ids with a given status, in order
RECURSIVE WithStatus(_, _, _)
WithStatus(ids, tbl, status) ==
    IF ids = << >> THEN << >>
    ELSE (IF tbl[Head(ids)].status = status THEN <<Head(ids)>> ELSE << >>)
         \o WithStatus(Tail(ids), tbl, status)

\* load_accounts(): every entry is appended, whatever the pool holds
LoadAccounts ==
    LET n == Len(savedFile.rows)
        base == Cardinality(DOMAIN acct)
        new == [i \in 1..n |-> base + i]
        tbl == [a \in DOMAIN acct \cup (base + 1)..(base + n) |->
                  IF a \in DOMAIN acct THEN acct[a]
                  ELSE LoadedAccount(savedFile.rows[a - base])]
        limited == WithStatus(new, tbl, "limited")
    IN
    /\ base + n <= MaxObjs
    /\ IF ~savedFile.exists
       THEN /\ UNCHANGED <<accounts, acct, active_accounts,
                           limited_accounts>>
            /\ Returns(Result("load_accounts", 0, << >>, FALSE,
                              "No accounts file found"))
       ELSE /\ acct' = tbl
            /\ accounts' = accounts \o new
            /\ active_accounts' =
                   active_accounts \o WithStatus(new, tbl, "active")
            /\ limited_accounts' =
                   limited_accounts
                   \cup { limited[i] : i \in 1..Len(limited) }
            /\ Returns(Result("load_accounts", 0, << >>, TRUE, ""))
    /\ UNCHANGED <<lifeVars,
                   banned_accounts, clients, envVars, engVars, stopped>>

\* the clock advances
Tick ==
    /\ now < MaxNow
    /\ now' = now + 1
    /\ UNCHANGED <<lifeVars,
                   poolVars, hconn, authorized, source_ok, savedFile,
                   engVars, ret, stopped>>

\* A pool without accounts; the session file of a phone number may or may
\* not hold an authorization.  The engine is not started.
InitPool ==
    /\ accounts = << >>
    /\ acct = [a \in {} |-> 0]
    /\ active_accounts = << >>
    /\ limited_accounts = {}
    /\ banned_accounts = {}
    /\ clients = [p \in {} |-> 0]
    /\ hconn = [h \in {} |-> FALSE]
    /\ authorized \in [Phones \cup {BadPhone} -> BOOLEAN]
    /\ session_files = { p \in Phones \cup {BadPhone} : authorized[p] }
    /\ shutdown = FALSE
    /\ adding = << >>
    /\ connecting = << >>
    /\ InitLoop
    /\ reconnect_tasks = NoTasks
    /\ spawning = {}
    /\ source_ok = TRUE
    /\ now = 0
    /\ savedFile = NoFile
    /\ initialized = FALSE
    /\ db_connection = FALSE
    /\ forwarding_rules = [r \in {} |-> 0]
    /\ nextRuleId = 1
    /\ forwarded_messages = << >>
    /\ forwarding_errors = << >>
    /\ forwarding_sessions = [k \in {} |-> 0]
    /\ nextSid = 1
    /\ handlers = << >>
    /\ dispatches = {}
    /\ nextMsgId = 1
    /\ restartQ = << >>
    /\ ret = NoResult
    /\ stopped = {}

NextPool ==
    \/ \E p \in Phones \cup {BadPhone}, to \in TestOutcomes :
         AddAccount(p, to)
    \/ \E p \in Phones, good \in BOOLEAN, so \in {"ok", "rpc"} :
         CompleteAuth(p, good, so)
    \/ \E p \in Phones, co \in ConnectOutcomes : ConnectAccount(p, co)

SpecPool == InitPool /\ [][NextPool]_vars

\* the statuses update_account_status accepts
ValidStatuses == {"active", "inactive", "banned", "flood_wait", "error"}

\* update_account_status(phone, status)
UpdateAccountStatus(phone, status) ==
    LET a == GetAccountByPhone(phone) IN
    /\ IF a = 0 \/ status \notin ValidStatuses
       THEN /\ UNCHANGED <<acct, active_accounts, limited_accounts,
                           banned_accounts>>
            /\ Returns(Result("update_account_status", 0, phone, FALSE, ""))
       ELSE /\ acct' = [acct EXCEPT ![a].status = status]
            /\ active_accounts' =
                   IF status = "active" THEN AppendNew(active_accounts, a)
                   ELSE RemoveFirst(active_accounts, a)
            /\ limited_accounts' =
                   IF status \in {"active", "banned"}
                   THEN limited_accounts \ {a}
                   ELSE limited_accounts \cup {a}
            /\ banned_accounts' =
                   IF status = "banned" THEN banned_accounts \cup {a}
                   ELSE banned_accounts \ {a}
            /\ Returns(Result("update_account_status", 0, phone, TRUE, ""))
    /\ UNCHANGED <<lifeVars,
                   accounts, clients, envVars, engVars, stopped>>

\* The pool after add_account has registered one or two authorized phone
\* numbers at the start of day 0; no accounts file yet.
InitQuota ==
    /\ \E n \in 1..2 :
         /\ accounts = [i \in 1..n |-> i]
         /\ acct = [i \in 1..n |->
                      NewAccount(IF i = 1 THEN Phone1 ELSE Phone2, 0)]
         /\ active_accounts = [i \in 1..n |-> i]
    /\ limited_accounts = {}
    /\ banned_accounts = {}
    /\ clients = [p \in {} |-> 0]
    /\ hconn = [h \in {} |-> FALSE]
    /\ authorized = [p \in Phones \cup {BadPhone} |-> p # BadPhone]
    /\ session_files = { acct[i].phone : i \in DOMAIN acct }
    /\ shutdown = FALSE
    /\ adding = << >>
    /\ connecting = << >>
    /\ InitLoop
    /\ reconnect_tasks = NoTasks
    /\ spawning = {}
    /\ source_ok = TRUE
    /\ now = 0
    /\ savedFile = NoFile
    /\ initialized = FALSE
    /\ db_connection = FALSE
    /\ forwarding_rules = [r \in {} |-> 0]
    /\ nextRuleId = 1
    /\ forwarded_messages = << >>
    /\ forwarding_errors = << >>
    /\ forwarding_sessions = [k \in {} |-> 0]
    /\ nextSid = 1
    /\ handlers = << >>
    /\ dispatches = {}
    /\ nextMsgId = 1
    /\ restartQ = << >>
    /\ ret = NoResult
    /\ stopped = {}

NextQuota ==
    \/ GetAvailableAccount
    \/ \E p \in Phones, s \in {"active", "flood_wait", "paused"} :
         UpdateAccountStatus(p, s)
    \/ SaveAccounts
    \/ LoadAccounts
    \/ Tick

SpecQuota == InitQuota /\ [][NextQuota]_vars

(***************************************************************************)
(* Properties of the account pool.                                         *)
(***************************************************************************)
NotAuthorizedMsg == "Account not authorized. Please sign in first."

\* C6: add_account of a valid, unregistered identifier on a session that is
\* not yet authorized, followed by complete_auth with the correct code, ends
\* with an account that get_account_by_phone finds and whose status is
\* active.
C6_RegisterThenAuthActive ==
    [][(/\ ret.op = "add_account"
        /\ ret.msg = NotAuthorizedMsg
        /\ ret'.op = "complete_auth"
        /\ ret'.phone = ret.phone
        /\ ret'.code = "correct")
       => (/\ GetAccountByPhone(ret.phone)' # 0
           /\ acct'[GetAccountByPhone(ret.phone)'].status = "active")]_vars

\* a step of get_available_account
GetStep == ret'.op = "get_available_account" /\ now' = now

\* the usage counter of an account once a day rollover is taken into account
CounterToday(a) ==
    IF a.last_reset.day < Day(now) THEN 0 ELSE a.added_today

\* the accounts a selection may return
Eligible ==
    { a \in DOMAIN acct :
        /\ acct[a].status = "active"
        /\ a \notin limited_accounts
        /\ CounterToday(acct[a]) < DailyLimit }

\* C7: get_available_account returns only an account that is active, not in
\* the limited set and below the daily limit after the day rollover; the
\* returned account has the largest time since last_activity among the
\* eligible ones; nothing is returned only when no account is eligible.
C7_SelectionRespectsLimitAndIdleness ==
    [][GetStep =>
        IF ret'.ok
        THEN /\ ret'.account \in Eligible
             /\ \A b \in Eligible : Idler(acct[ret'.account], acct[b])
        ELSE Eligible = {}]_vars

\* C8: a call of get_available_account resets the usage counter of an
\* account exactly when the call is made on a date later than the account's
\* last reset date; no other call lowers the counter.
C8_ResetOncePerDay ==
    [][GetStep =>
        \A a \in DOMAIN acct :
            IF acct[a].last_reset.day < Day(now)
            THEN /\ acct'[a].last_reset.day = Day(now)
                 /\ acct'[a].added_today =
                        (IF ret'.ok /\ ret'.account = a THEN 1 ELSE 0)
            ELSE acct'[a].added_today >= acct[a].added_today]_vars

\* the invocation d.cur took one turn of its destination loop in this step
TurnNow(d) ==
    /\ d \in dispatches
    /\ d.cur # << >>
    /\ d.cur[1].i <= Len(d.cur[1].dests)
    /\ \/ EndedNow(d)
       \/ \E d2 \in dispatches' :
             /\ d2.msg_id = d.msg_id
             /\ d2.pending = d.pending
             /\ d2.cur # << >>
             /\ d2.cur[1].i = d.cur[1].i + 1

\* C11: with the store open, every turn of the destination loop of a
\* fan-out leaves exactly one audit row: one row of forwarded_messages and
\* no row of forwarding_errors, or one row of forwarding_errors and no row
\* of forwarded_messages.
C11_OneAuditRecordPerDestination ==
    [][\A d \in dispatches :
         (TurnNow(d) /\ initialized /\ db_connection) =>
            \/ /\ Len(forwarded_messages') = Len(forwarded_messages) + 1
               /\ forwarding_errors' = forwarding_errors
            \/ /\ Len(forwarding_errors') = Len(forwarding_errors) + 1
               /\ forwarded_messages' = forwarded_messages
      ]_vars

\* a step in which start_forwarding(r) returned
StartStep(r) ==
    /\ ret'.op = "start_forwarding"
    /\ ret'.rule = r
    /\ dispatches' = dispatches
    /\ source_ok' = source_ok
    /\ restartQ' = restartQ
    /\ (ret' # ret \/ hconn' = hconn)

\* C12: start_forwarding on a rule whose session is running returns
\* success and registers no handler, and leaves the session table and the
\* persisted rules as they were.
C12_StartIdempotent ==
    [][\A r \in DOMAIN forwarding_rules :
         LET key == SessionKey(forwarding_rules[r].account_phone, r) IN
         (/\ StartStep(r)
          /\ key \in DOMAIN forwarding_sessions
          /\ forwarding_sessions[key].status = "running")
         => /\ ret'.ok
            /\ handlers' = handlers
            /\ forwarding_sessions' = forwarding_sessions
            /\ forwarding_rules' = forwarding_rules
      ]_vars

\* start_forwarding has just answered that the rule was already running,
\* and the rule still has its one handler and its running session
C12_Witness ==
    /\ ret.op = "start_forwarding"
    /\ ret.ok
    /\ ret.msg = "Forwarding already running for this rule."
    /\ Len(handlers) = 1
    /\ \E k \in DOMAIN forwarding_sessions :
          /\ k[2] = ret.rule
          /\ forwarding_sessions[k].status = "running"

\* a step in which stop_forwarding(r) returned
StopStep(r) ==
    /\ ret'.op = "stop_forwarding"
    /\ ret'.rule = r
    /\ dispatches' = dispatches
    /\ source_ok' = source_ok
    /\ restartQ' = restartQ
    /\ hconn' = hconn

DeleteStep(r) ==
    /\ ret'.op = "delete_forwarding_rule"
    /\ ret'.rule = r
    /\ dispatches' = dispatches
    /\ source_ok' = source_ok
    /\ restartQ' = restartQ
    /\ hconn' = hconn

AutoReconnectMaxRetries == 10
AutoReconnectBaseDelay == 1
AutoReconnectMaxDelay == 60

RECURSIVE Pow2(_)
\* 2 ** n
Pow2(n) == IF n = 0 THEN 1 ELSE 2 * Pow2(n - 1)

\* min(a, b)
Min(a, b) == IF a <= b THEN a ELSE b

\* a backoff without the cap
BackoffDelayUncapped(attempts) == AutoReconnectBaseDelay * Pow2(attempts)

\* delay = min(base_delay * (2 ** reconnect_attempts), max_delay)
BackoffDelay(attempts) ==
    Min(AutoReconnectBaseDelay * Pow2(attempts), AutoReconnectMaxDelay)

\* disconnect_account(phone): the handle is disconnected and dropped from
\* the account, the status becomes 'disconnected', the account leaves the
\* active list; is_connected, self._clients and the supervisor stay
DisconnectAccount(phone) ==
    LET a == GetAccountByPhone(phone) IN
    /\ IF a = 0
       THEN /\ UNCHANGED <<acct, active_accounts, hconn>>
            /\ Returns(Result("disconnect_account", 0, phone, FALSE,
                              "Account not found"))
       ELSE IF acct[a].client = 0
       THEN /\ UNCHANGED <<acct, active_accounts, hconn>>
            /\ Returns(Result("disconnect_account", 0, phone, TRUE,
                              "Account already disconnected"))
       ELSE \/ /\ hconn' = [hconn EXCEPT ![acct[a].client] = FALSE]
               /\ acct' = [acct EXCEPT ![a].client = 0,
                                       ![a].status = "disconnected"]
               /\ active_accounts' = RemoveFirst(active_accounts, a)
               /\ Returns(Result("disconnect_account", 0, phone, TRUE,
                                 "Successfully disconnected account"))
            \/ \* client.disconnect() raises
               /\ IsConnected(hconn, acct[a].client)
               /\ UNCHANGED <<acct, active_accounts, hconn>>
               /\ Returns(Result("disconnect_account", 0, phone, FALSE,
                                 "Error disconnecting account"))
    /\ UNCHANGED <<accounts, limited_accounts, banned_accounts, clients,
                   authorized, source_ok, now, savedFile, engVars, lifeVars,
                   stopped>>

\* reconnect_account(phone) with the _test_account_connection it awaits:
\* its result and the pool it leaves.  `to` is what the test client meets;
\* the test client is local to the test and is disconnected at its end
ReconnectResult(phone, to) ==
    LET a == GetAccountByPhone(phone)
        same == [ok |-> FALSE, msg |-> "Account not found", acct |-> acct,
                 active |-> active_accounts, limited |-> limited_accounts,
                 files |-> session_files]
    IN
    IF a = 0 THEN same
    ELSE IF acct[a].client # 0 /\ IsConnected(hconn, acct[a].client)
    THEN [same EXCEPT !.ok = TRUE, !.msg = "Account is already connected"]
    ELSE
      LET tested == [same EXCEPT !.files = session_files \cup {phone}] IN
      CASE to = "ok" /\ authorized[phone] ->
             [tested EXCEPT
                !.ok = TRUE, !.msg = "Successfully reconnected account",
                !.acct = [acct EXCEPT ![a].status = "active",
                                      ![a].error_count = 0,
                                      ![a].last_activity = now],
                !.active = AppendNew(active_accounts, a),
                !.limited = limited_accounts \ {a}]
        [] to = "ok" /\ ~authorized[phone] ->
             [tested EXCEPT !.msg = "Failed to reconnect: not authorized"]
        [] OTHER ->
             \* Telethon's errors, FloodWaitError and PhoneNumberBannedError
             \* among them, are caught by `except Exception`: the clauses
             \* for FloodWaitError and PhoneNumberBannedError name classes
             \* of this module, which nothing raises
             [tested EXCEPT
                !.msg = "Failed to reconnect: connection failed",
                !.acct = [acct EXCEPT
                            ![a].error_count = acct[a].error_count + 1]]

\* reconnect_account(phone), called by the operator
ReconnectAccount(phone, to) ==
    \E rr \in {ReconnectResult(phone, to)} :
    /\ \A a \in DOMAIN rr.acct : rr.acct[a].error_count <= MaxErr
    /\ acct' = rr.acct
    /\ active_accounts' = rr.active
    /\ limited_accounts' = rr.limited
    /\ session_files' = rr.files
    /\ Returns(Result("reconnect_account", 0, phone, rr.ok, rr.msg))
    /\ UNCHANGED <<shutdown, adding, connecting, loopVars, accounts, banned_accounts, clients, envVars, engVars,
                   reconnect_tasks, spawning, stopped>>

\* _auto_reconnect_loop(phone), the task connect_account created; after
\* shutdown the supervisor it creates never enters its loop and
\* unregisters itself at once
AutoReconnectLoop(phone) ==
    /\ phone \in spawning
    /\ spawning' = spawning \ {phone}
    /\ reconnect_tasks' = IF phone \in DOMAIN reconnect_tasks \/ shutdown
                          THEN reconnect_tasks
                          ELSE Put(reconnect_tasks, phone, NewSupervisor)
    /\ UNCHANGED <<shutdown, adding, connecting, loopVars, poolVars, envVars, engVars, session_files, ret, stopped>>

\* the event of a waiting supervisor is set from outside the task
SetReconnectEvent(phone) ==
    /\ phone \in DOMAIN reconnect_tasks
    /\ reconnect_tasks[phone].pc = "wait"
    /\ ~reconnect_tasks[phone].event
    /\ reconnect_tasks' = [reconnect_tasks EXCEPT ![phone].event = TRUE]
    /\ UNCHANGED <<shutdown, adding, connecting, loopVars, poolVars, envVars, engVars, spawning, session_files, ret,
                   stopped>>

\* _auto_reconnect_task: reconnect_event.wait() returns; the account is
\* looked up, the event cleared, the delay computed and the sleep begun
SupervisorWake(phone) ==
    /\ phone \in DOMAIN reconnect_tasks
    /\ reconnect_tasks[phone].pc = "wait"
    /\ reconnect_tasks[phone].event
    /\ reconnect_tasks' =
         IF shutdown \/ GetAccountByPhone(phone) = 0
         THEN Del(reconnect_tasks, phone)
         ELSE [reconnect_tasks EXCEPT
                 ![phone].event = FALSE,
                 ![phone].delay = BackoffDelay(reconnect_tasks[phone].attempts),
                 ![phone].pc = "sleep"]
    /\ UNCHANGED <<shutdown, adding, connecting, loopVars, poolVars, envVars, engVars, spawning, session_files, ret,
                   stopped>>

\* the supervisor after a reconnect attempt that succeeded or failed
AfterAttempt(task, success) ==
    IF success
    THEN [task EXCEPT !.attempts = 0, !.pc = "wait", !.last = "ok"]
    ELSE [task EXCEPT !.attempts = task.attempts + 1, !.event = TRUE,
                      !.pc = "wait", !.last = "failed"]

\* _auto_reconnect_task after the sleep: reconnect_account, then the
\* counter; at max_attempts the loop is left and the task unregistered
SupervisorAttempt(phone, to) ==
    /\ phone \in DOMAIN reconnect_tasks
    /\ reconnect_tasks[phone].pc = "sleep"
    /\ \E rr \in {ReconnectResult(phone, to)} :
       \E task \in {AfterAttempt(reconnect_tasks[phone], rr.ok)} :
         /\ \A a \in DOMAIN rr.acct : rr.acct[a].error_count <= MaxErr
         /\ acct' = rr.acct
         /\ active_accounts' = rr.active
         /\ limited_accounts' = rr.limited
         /\ session_files' = rr.files
         /\ reconnect_tasks' =
              IF ~rr.ok /\ task.attempts >= AutoReconnectMaxRetries
              THEN Del(reconnect_tasks, phone)
              ELSE Put(reconnect_tasks, phone, task)
    /\ UNCHANGED <<shutdown, adding, connecting, loopVars, accounts, banned_accounts, clients, envVars, engVars,
                   spawning, ret, stopped>>

\* the handles close() calls disconnect() on: the connected clients of
\* the accounts in self.accounts
ClosedHandles ==
    { h \in DOMAIN hconn :
        hconn[h] /\ \E i \in 1..Len(accounts) : acct[accounts[i]].client = h }

\* close(): the shutdown event is set, every registered supervisor is
\* cancelled (it leaves its loop at the await it is in), the connected
\* clients of the accounts are disconnected and the collections cleared.
\* `raises` are the handles whose disconnect() raises and leaves the link
\* up; the error is logged and the loop goes on
ClosePool(raises) ==
    /\ raises \subseteq ClosedHandles
    /\ shutdown' = TRUE
    /\ reconnect_tasks' = NoTasks
    /\ hconn' = [h \in DOMAIN hconn |->
                   IF h \in ClosedHandles \ raises THEN FALSE ELSE hconn[h]]
    /\ accounts' = << >>
    /\ active_accounts' = << >>
    /\ limited_accounts' = {}
    /\ banned_accounts' = {}
    /\ clients' = [p \in {} |-> 0]
    /\ Returns(Result("close", 0, << >>, TRUE, ""))
    /\ UNCHANGED <<acct, spawning, session_files, adding, connecting, loopVars,
                   authorized,
                   source_ok, now, savedFile, engVars, stopped>>

\* the accounts cleanup() disconnects: those with a client whose
\* disconnect() does not raise
Cleaned(raises) ==
    { a \in DOMAIN acct :
        /\ InSeq(a, accounts)
        /\ acct[a].client # 0
        /\ acct[a].client \notin raises }

\* the account table after cleanup()'s disconnect_account calls
CleanedAcct(raises) ==
    [a \in DOMAIN acct |->
       IF a \in Cleaned(raises)
       THEN [acct[a] EXCEPT !.client = 0, !.status = "disconnected"]
       ELSE acct[a]]

\* cleanup(), which __aexit__ runs: disconnect_account for every account
\* with a client, then save_accounts(); the shutdown event and the
\* supervisors are not touched
Cleanup(raises) ==
    /\ raises \subseteq ClosedHandles
    /\ acct' = CleanedAcct(raises)
    /\ hconn' = [h \in DOMAIN hconn |->
                   IF \E a \in Cleaned(raises) : acct[a].client = h
                   THEN FALSE ELSE hconn[h]]
    /\ active_accounts' = SelectSeq(active_accounts,
                                    LAMBDA a : a \notin Cleaned(raises))
    /\ savedFile' = [exists |-> TRUE,
                     rows |-> [i \in 1..Len(accounts) |->
                                 SavedRow(CleanedAcct(raises)[accounts[i]])]]
    /\ Returns(Result("cleanup", 0, << >>, TRUE, ""))
    /\ UNCHANGED <<lifeVars, accounts, limited_accounts, banned_accounts,
                   clients, authorized, source_ok, now, engVars, stopped>>

\* The pool holds one account: _load_accounts_async restored it (connected
\* handle, supervisor being created) or add_account added it (no handle).
InitLife ==
    /\ accounts = <<1>>
    /\ \E loaded \in BOOLEAN :
         /\ acct = [a \in {1} |->
                      IF loaded
                      THEN [NewAccount(Phone1, 0) EXCEPT !.client = 1,
                                                      !.is_connected = TRUE]
                      ELSE NewAccount(Phone1, 0)]
         /\ clients = IF loaded THEN [p \in {Phone1} |-> 1]
                      ELSE [p \in {} |-> 0]
         /\ hconn = IF loaded THEN [h \in {1} |-> TRUE]
                    ELSE [h \in {} |-> FALSE]
         /\ spawning = IF loaded THEN {Phone1} ELSE {}
    /\ reconnect_tasks = NoTasks
    /\ session_files = {Phone1}
    /\ shutdown = FALSE
    /\ adding = << >>
    /\ connecting = << >>
    /\ InitLoop
    /\ active_accounts = <<1>>
    /\ limited_accounts = {}
    /\ banned_accounts = {}
    /\ authorized = [p \in {Phone1} |-> TRUE]
    /\ source_ok = TRUE
    /\ now = 0
    /\ savedFile = NoFile
    /\ initialized = FALSE
    /\ db_connection = FALSE
    /\ forwarding_rules = [r \in {} |-> 0]
    /\ nextRuleId = 1
    /\ forwarded_messages = << >>
    /\ forwarding_errors = << >>
    /\ forwarding_sessions = [k \in {} |-> 0]
    /\ nextSid = 1
    /\ handlers = << >>
    /\ dispatches = {}
    /\ nextMsgId = 1
    /\ restartQ = << >>
    /\ ret = NoResult
    /\ stopped = {}

NextLife ==
    \/ \E co \in ConnectOutcomes : ConnectAccount(Phone1, co)
    \/ DisconnectAccount(Phone1)
    \/ \E to \in TestOutcomes : ReconnectAccount(Phone1, to)
    \/ \E ds \in BOOLEAN : RemoveAccount(Phone1, ds)
    \/ \E s \in {"active", "flood_wait", "banned"} :
         UpdateAccountStatus(Phone1, s)
    \/ \E h \in DOMAIN hconn : LinkDrop(h)
    \/ AutoReconnectLoop(Phone1)
    \/ SetReconnectEvent(Phone1)
    \/ SupervisorWake(Phone1)
    \/ \E to \in TestOutcomes : SupervisorAttempt(Phone1, to)
    \/ \E raises \in SUBSET DOMAIN hconn : ClosePool(raises)

SpecLife == InitLife /\ [][NextLife]_vars

\* The two ways a pool is shut down, close() and the cleanup() of
\* __aexit__, over a pool whose account is connected, dropped, removed and
\* supervised.
NextExit ==
    \/ \E co \in ConnectOutcomes : ConnectAccount(Phone1, co)
    \/ \E ds \in BOOLEAN : RemoveAccount(Phone1, ds)
    \/ \E h \in DOMAIN hconn : LinkDrop(h)
    \/ AutoReconnectLoop(Phone1)
    \/ SetReconnectEvent(Phone1)
    \/ SupervisorWake(Phone1)
    \/ \E to \in TestOutcomes : SupervisorAttempt(Phone1, to)
    \/ \E raises \in SUBSET DOMAIN hconn : ClosePool(raises)
    \/ \E raises \in SUBSET DOMAIN hconn : Cleanup(raises)

SpecExit == InitLife /\ [][NextExit]_vars

\* The event loop runs every task that is ready: a created
\* _auto_reconnect_loop runs, a supervisor whose event is set wakes up, a
\* sleep ends.  Nothing obliges the operator or the network to act.
SpecLifeFair ==
    /\ SpecLife
    /\ WF_vars(AutoReconnectLoop(Phone1))
    /\ WF_vars(SupervisorWake(Phone1))
    /\ WF_vars(\E to \in TestOutcomes : SupervisorAttempt(Phone1, to))

(***************************************************************************)
(* Properties of the account life cycle.                                   *)
(***************************************************************************)
\* the handle of account object a is live: the account holds a client and
\* the client is connected
LiveHandle(a) == acct[a].client # 0 /\ IsConnected(hconn, acct[a].client)

\* C15: in every reachable state a pooled account has a live (connected)
\* handle only if its status is active, and its is_connected flag agrees
\* with the handle.
C15_LiveHandleOnlyWhenActive ==
    \A i \in 1..Len(accounts) :
       /\ LiveHandle(accounts[i]) => acct[accounts[i]].status = "active"
       /\ acct[accounts[i]].is_connected <=> LiveHandle(accounts[i])

\* a step in which connect_account(phone) returns (the steps of the link
\* and of the supervisor leave ret alone and change hconn, spawning or
\* reconnect_tasks)
ConnectStep(phone) ==
    /\ ret'.op = "connect_account"
    /\ ret'.phone = phone
    /\ reconnect_tasks' = reconnect_tasks
    /\ ret' # ret \/ (hconn' = hconn /\ spawning' = spawning)

\* C16: connect_account on an account whose handle is connected returns
\* success and changes nothing; and whenever connect_account returns
\* success, the account has a connected handle of an authorized session
\* and status active.
C16_ConnectIdempotentAndTruthful ==
    [][\A i \in 1..Len(accounts) :
         ConnectStep(acct[accounts[i]].phone) =>
           /\ LiveHandle(accounts[i]) =>
                /\ ret'.ok
                /\ UNCHANGED <<poolVars, hconn, lifeVars>>
           /\ ret'.ok =>
                /\ LiveHandle(accounts[i])'
                /\ authorized[acct[accounts[i]].phone]
                /\ acct'[accounts[i]].status = "active"]_vars

\* a step in which disconnect_account(phone) returns
DisconnectStep(phone) ==
    /\ ret'.op = "disconnect_account"
    /\ ret'.phone = phone
    /\ reconnect_tasks' = reconnect_tasks
    /\ spawning' = spawning
    /\ ret' # ret \/ hconn' = hconn

\* C17: after disconnect_account returns success the account has no
\* supervisor task, no connected handle, a disconnected (offline) status
\* and is not in the active list.
C17_DisconnectCancelsAndReleases ==
    [][\A i \in 1..Len(accounts) :
         (DisconnectStep(acct[accounts[i]].phone) /\ ret'.ok) =>
           /\ acct[accounts[i]].phone \notin DOMAIN reconnect_tasks'
           /\ ~LiveHandle(accounts[i])'
           /\ acct'[accounts[i]].status \in {"disconnected", "offline"}
           /\ ~InSeq(accounts[i], active_accounts')]_vars

\* a step in which reconnect_account(phone), called by the operator,
\* returns
ReconnectStep(phone) ==
    /\ ret'.op = "reconnect_account"
    /\ ret'.phone = phone
    /\ reconnect_tasks' = reconnect_tasks
    /\ spawning' = spawning
    /\ ret' # ret \/ hconn' = hconn

\* C18: whenever reconnect_account returns success the account holds a
\* connected handle, has status active, is in the active list and is not
\* in the limited list.
C18_ReconnectLeavesConnectedActive ==
    [][\A i \in 1..Len(accounts) :
         (ReconnectStep(acct[accounts[i]].phone) /\ ret'.ok) =>
           /\ LiveHandle(accounts[i])'
           /\ acct'[accounts[i]].status = "active"
           /\ InSeq(accounts[i], active_accounts')
           /\ accounts[i] \notin limited_accounts']_vars

\* the account object a is in one of the pool's collections
Pooled(a) ==
    \/ InSeq(a, accounts)
    \/ InSeq(a, active_accounts)
    \/ a \in limited_accounts
    \/ a \in banned_accounts

\* C19: after remove_account(phone, delete_session) has removed an account,
\* the account is in none of accounts, active, limited and banned, its
\* phone has no entry in the client registry and no supervisor task, its
\* handle is not connected, and its session file is gone exactly when
\* delete_session was requested.
C19_RemoveLeavesNothingBehind ==
    [][\A a \in DOMAIN acct, ds \in BOOLEAN :
         (/\ a = GetAccountByPhone(acct[a].phone)
          /\ RemoveAccount(acct[a].phone, ds)
          /\ ret'.ok) =>
           /\ ~Pooled(a)'
           /\ acct[a].phone \notin DOMAIN clients'
           /\ acct[a].phone \notin DOMAIN reconnect_tasks'
           /\ ~IsConnected(hconn', acct[a].client)
           /\ (acct[a].phone \in session_files') <=>
                (acct[a].phone \in session_files /\ ~ds)]_vars

\* the supervisor of phone goes from waiting to sleeping in this step
WakeStep(phone) ==
    /\ reconnect_tasks[phone].pc = "wait"
    /\ phone \in DOMAIN reconnect_tasks'
    /\ reconnect_tasks'[phone].pc = "sleep"

\* the supervisor of phone ends its sleep and makes its reconnect attempt
\* in this step (close() cancels it instead, and sets the shutdown event)
AttemptStep(phone) ==
    /\ reconnect_tasks[phone].pc = "sleep"
    /\ reconnect_tasks' # reconnect_tasks
    /\ shutdown' = shutdown

\* C20: the supervisor sleeps min(base_delay * 2^attempts, max_delay)
\* before each reconnect attempt; after a successful attempt its counter is
\* 0, after a failed one the counter is one higher and the event is set
\* again, unless the counter has reached the maximum, and then the task
\* ends; the counter never exceeds the maximum and the delay never exceeds
\* max_delay.
C20_SupervisorBackoff ==
    [][\A p \in DOMAIN reconnect_tasks :
         /\ reconnect_tasks[p].attempts <= AutoReconnectMaxRetries
         /\ reconnect_tasks[p].delay <= AutoReconnectMaxDelay
         /\ WakeStep(p) =>
              /\ reconnect_tasks'[p].delay =
                   Min(AutoReconnectBaseDelay
                         * Pow2(reconnect_tasks[p].attempts),
                       AutoReconnectMaxDelay)
              /\ reconnect_tasks'[p].delay <= AutoReconnectMaxDelay
              /\ reconnect_tasks'[p].attempts = reconnect_tasks[p].attempts
         /\ AttemptStep(p) =>
              IF p \notin DOMAIN reconnect_tasks'
              THEN reconnect_tasks[p].attempts + 1 = AutoReconnectMaxRetries
              ELSE /\ reconnect_tasks'[p].pc = "wait"
                   /\ reconnect_tasks'[p].last = "ok" =>
                        reconnect_tasks'[p].attempts = 0
                   /\ reconnect_tasks'[p].last # "ok" =>
                        /\ reconnect_tasks'[p].attempts =
                             reconnect_tasks[p].attempts + 1
                        /\ reconnect_tasks'[p].attempts
                             < AutoReconnectMaxRetries
                        /\ reconnect_tasks'[p].event]_vars

\* a supervisor that failed often enough to sleep the capped delay and
\* then saw a successful attempt: its counter is back at 0
C20_Witness ==
    \E p \in DOMAIN reconnect_tasks :
       /\ reconnect_tasks[p].last = "ok"
       /\ reconnect_tasks[p].attempts = 0
       /\ reconnect_tasks[p].delay = AutoReconnectMaxDelay
       /\ reconnect_tasks[p].pc = "wait"

(***************************************************************************)
(* Properties of shutdown, uniqueness and the terminal status.             *)
(***************************************************************************)
\* no account of the pool has the phone (it was removed, or the pool was
\* closed)
Gone(phone) == GetAccountByPhone(phone) = 0

\* the supervisor of the phone makes a reconnect attempt in this step
SupervisorAttempts(phone) ==
    phone \in DOMAIN reconnect_tasks /\ AttemptStep(phone)

\* C21: once close() or remove_account(phone) has taken the account out of
\* the pool, the supervisor of the phone eventually terminates, and it
\* makes no further reconnect attempt.
C21_NoSupervisorSurvives ==
    /\ Gone(Phone1) ~> (Phone1 \notin DOMAIN reconnect_tasks)
    /\ [][Gone(Phone1) => ~SupervisorAttempts(Phone1)]_vars

(***************************************************************************)
(* add_account with its suspension point: the call validates its           *)
(* arguments and looks for the phone, awaits the connection test, and      *)
(* appends the account when the test has passed.                           *)
(***************************************************************************)
\* add_account calls that may await their connection test at a time
MaxAdding == 2

\* what the caller passes as api_id and api_hash
Credentials == {"ok", "bad_id", "no_hash"}

\* an add_account that does not look at the accounts of the pool
RejectionSkipsExisting(phone, creds) ==
    IF ~ValidPhone(phone) THEN "Invalid phone number format"
    ELSE IF creds = "bad_id" THEN "API ID must be a number"
    ELSE IF creds = "no_hash" THEN "Invalid API hash"
    ELSE ""

\* the answer of add_account to arguments it rejects before its await, or
\* "" when it goes on to the connection test
Rejection(phone, creds) ==
    IF ~ValidPhone(phone) THEN "Invalid phone number format"
    ELSE IF creds = "bad_id" THEN "API ID must be a number"
    ELSE IF creds = "no_hash" THEN "Invalid API hash"
    ELSE IF GetAccountByPhone(phone) # 0 THEN "already exists"
    ELSE ""

\* add_account(phone, api_id, api_hash) up to its await
AddAccountBegin(phone, creds) ==
    /\ Len(adding) < MaxAdding
    /\ IF Rejection(phone, creds) # ""
       THEN /\ Returns(Result("add_account", 0, phone, FALSE,
                              Rejection(phone, creds)))
            /\ UNCHANGED adding
       ELSE /\ adding' = Append(adding, phone)
            /\ UNCHANGED ret
    /\ UNCHANGED <<poolVars, envVars, engVars, reconnect_tasks, spawning,
                   session_files, shutdown, connecting, loopVars,
                   stopped>>

\* add_account from the return of _test_account_connection on: the i-th
\* waiting call gets the outcome `to` of its test
AddAccountEnd(i, to) ==
    /\ i \in 1..Len(adding)
    /\ NewObj <= MaxObjs
    /\ adding' = SubSeq(adding, 1, i - 1) \o SubSeq(adding, i + 1, Len(adding))
    /\ session_files' = session_files \cup {adding[i]}
    /\ IF to = "ok" /\ authorized[adding[i]]
       THEN /\ acct' = Put(acct, NewObj, NewAccount(adding[i], now))
            /\ accounts' = Append(accounts, NewObj)
            /\ active_accounts' = Append(active_accounts, NewObj)
            /\ Returns([Result("add_account", 0, adding[i], TRUE,
                               "added successfully")
                          EXCEPT !.account = NewObj])
       ELSE /\ UNCHANGED <<accounts, acct, active_accounts>>
            /\ Returns(Result("add_account", 0, adding[i], FALSE,
                         IF to = "ok"
                         THEN "Account not authorized. Please sign in first."
                         ELSE "Connection failed"))
    /\ UNCHANGED <<limited_accounts, banned_accounts, clients, envVars,
                   engVars, reconnect_tasks, spawning, shutdown, connecting,
                   loopVars,
                   stopped>>

NextAdd ==
    \/ \E p \in Phones \cup {BadPhone}, creds \in Credentials :
         AddAccountBegin(p, creds)
    \/ \E i \in 1..MaxAdding, to \in TestOutcomes : AddAccountEnd(i, to)
    \/ SaveAccounts
    \/ LoadAccounts

SpecAdd == InitPool /\ [][NextAdd]_vars

\* no two accounts of the pool have the same phone
UniquePhones ==
    \A i, j \in 1..Len(accounts) :
       acct[accounts[i]].phone = acct[accounts[j]].phone => i = j

\* C22: in every reachable state the pool holds at most one account per
\* phone, and add_account for a phone that is already in the pool is
\* rejected.
C22_OneAccountPerPhone ==
    [][/\ UniquePhones
       /\ UniquePhones'
       /\ \A p \in Phones, creds \in Credentials :
            (AddAccountBegin(p, creds) /\ GetAccountByPhone(p) # 0) =>
              (~ret'.ok /\ ret'.op = "add_account" /\ adding' = adding)]_vars

\* the answer of reconnect_account tells that a connection test was made
Tested(msg) ==
    msg \notin {"Account not found", "Account is already connected"}

\* C23: once the status of a pooled account is banned, no step changes its
\* status, the account is not in the active list and not among the
\* accounts get_available_account chooses from, and neither the supervisor
\* nor reconnect_account makes a reconnect attempt for it.
C23_BannedIsTerminal ==
    [][\A a \in DOMAIN acct :
         (InSeq(a, accounts) /\ InSeq(a, accounts')
            /\ acct[a].status = "banned") =>
           /\ acct'[a].status = "banned"
           /\ ~InSeq(a, active_accounts')
           /\ a \notin Candidates'
           /\ ~SupervisorAttempts(acct[a].phone)
           /\ ~(ReconnectStep(acct[a].phone) /\ Tested(ret'.msg))]_vars

\* the handles the pool knows: the accounts' clients and the entries of
\* the client registry
KnownHandles ==
    ({ acct[accounts[i]].client : i \in 1..Len(accounts) }
       \cup { clients[p] : p \in DOMAIN clients }) \ {0}

\* C24: close() calls disconnect() on every connected handle the pool
\* knows, an account's client or an entry of the client registry, and goes
\* on after a disconnect() that raises: when close() returns, a known handle
\* is still connected only if its own disconnect() raised, and no supervisor
\* task is left
C24_CloseDisconnectsEveryHandle ==
    [][\A raises \in SUBSET DOMAIN hconn :
         ClosePool(raises) =>
           /\ \A h \in KnownHandles : hconn'[h] => h \in raises
           /\ reconnect_tasks' = NoTasks]_vars

\* the run of forward_message_to_destinations in d is in the sleep that
\* follows a rate-limit signal
InFloodSleep(d) == d.cur # << >> /\ d.cur[1].slept > 0

\* C25: when forward_messages raises a rate-limit signal, the turn records
\* at most one error (exactly one error row when the audit store is open),
\* sleeps no longer than the configured ceiling max_flood_wait, and the loop
\* goes on with the next destination
C25_FloodWaitBoundedSleep ==
    [][\A d \in dispatches, e \in dispatches' :
         (/\ d.cur # << >>
          /\ e \notin dispatches
          /\ e.msg_id = d.msg_id
          /\ InFloodSleep(e)) =>
            /\ e.cur[1].slept <= MaxFloodWait
            /\ e.cur[1].i = d.cur[1].i + 1
            /\ forwarding_errors' =
                 LogError(forwarding_errors, initialized, db_connection,
                          d.cur[1].rule_id, d.cur[1].phone, "flood_wait")]_vars

(***************************************************************************)
(* Rate-limited accounts over time.                                        *)
(***************************************************************************)
\* The pool of InitLife while the clock advances: the operator connects,
\* the link drops, the supervisor of the account runs.
NextFlood ==
    \/ \E co \in ConnectOutcomes : ConnectAccount(Phone1, co)
    \/ \E h \in DOMAIN hconn : LinkDrop(h)
    \/ Tick
    \/ AutoReconnectLoop(Phone1)
    \/ SetReconnectEvent(Phone1)
    \/ SupervisorWake(Phone1)
    \/ \E to \in TestOutcomes : SupervisorAttempt(Phone1, to)

SpecFlood == InitLife /\ [][NextFlood]_vars

\* time passes and the tasks the pool created run; the operator need not
\* act and nothing need set the event of the supervisor
SpecFloodFair ==
    /\ SpecFlood
    /\ WF_vars(Tick)
    /\ WF_vars(AutoReconnectLoop(Phone1))
    /\ WF_vars(SupervisorWake(Phone1))
    /\ WF_vars(\E to \in TestOutcomes : SupervisorAttempt(Phone1, to))

\* account object a is in flood_wait after connect() signalled a wait
FloodWaiting(a) ==
    /\ InSeq(a, accounts)
    /\ acct[a].status = "flood_wait"
    /\ acct[a].flood_until # NoTime

\* connect_account(phone) reaches client.connect() in this step
ConnectAttempt(phone) ==
    /\ ConnectStep(phone)
    /\ ret'.msg \in {"connected", "session invalid", "flood wait",
                     "rpc error", "failed to connect"}

\* C26: an account that connect() put into flood_wait is active again once
\* the signalled wait has elapsed, whether or not the operator acts, and
\* until the wait has elapsed neither connect_account nor the supervisor
\* makes a connection attempt for it
C26_FloodWaitIsTimed ==
    /\ \A a \in 1..MaxObjs :
         (a \in DOMAIN acct /\ FloodWaiting(a) /\ now >= acct[a].flood_until)
           ~> (a \in DOMAIN acct /\ acct[a].status = "active")
    /\ [][\A a \in DOMAIN acct :
            (FloodWaiting(a) /\ now < acct[a].flood_until) =>
               /\ ~ConnectAttempt(acct[a].phone)
               /\ ~SupervisorAttempts(acct[a].phone)]_vars

\* the error count at which an operation moves the account to the limited
\* list: 3 in complete_auth, 5 in connect_account
ErrorThreshold(op) ==
    IF op = "complete_auth" THEN AuthErrorLimit ELSE ConnectErrorLimit

\* connect_account or complete_auth returns a failure for the phone number
\* of account object a in this step
FailedFor(a) ==
    /\ InSeq(a, accounts)
    /\ ret'.op \in {"connect_account", "complete_auth"}
    /\ ret'.phone = acct[a].phone
    /\ ~ret'.ok

\* C27: a failed connect_account or complete_auth on an active account
\* leaves it in the active list and out of the limited list while its error
\* counter is below the threshold of the operation, and leaves it in the
\* limited list and out of the active list once the counter has reached the
\* threshold
C27_DemotedOnlyAtThreshold ==
    [][\A a \in DOMAIN acct :
         (FailedFor(a) /\ InSeq(a, active_accounts)
            /\ a \notin limited_accounts) =>
           IF acct'[a].error_count < ErrorThreshold(ret'.op)
           THEN InSeq(a, active_accounts') /\ a \notin limited_accounts'
           ELSE ~InSeq(a, active_accounts') /\ a \in limited_accounts']_vars

\* Registration and two-step sign-in of one phone number: add_account,
\* connect_account (which creates the client), complete_auth with every
\* answer of sign_in.
NextAuth ==
    \/ \E to \in TestOutcomes : AddAccount(Phone1, to)
    \/ \E co \in ConnectOutcomes : ConnectAccount(Phone1, co)
    \/ \E h \in DOMAIN hconn : LinkDrop(h)
    \/ \E good \in BOOLEAN, so \in SignInOutcomes :
         CompleteAuth(Phone1, good, so)

SpecAuth == InitPool /\ [][NextAuth]_vars

\* complete_auth returns for the phone number of account object a in this
\* step
AuthStep(a) ==
    /\ InSeq(a, accounts)
    /\ ret'.op = "complete_auth"
    /\ ret'.phone = acct[a].phone

\* C28: when sign_in answers the code with the password-needed signal and
\* no password was given, complete_auth returns "2FA password required" and
\* leaves the account in status pending_2fa; a complete_auth that follows
\* with the correct password, and succeeds, leaves the account active
C28_TwoFactorStages ==
    [][\A a \in DOMAIN acct :
         /\ (AuthStep(a) /\ ret'.msg = "2FA password required") =>
               acct'[a].status = "pending_2fa"
         /\ (AuthStep(a) /\ ret.op = "complete_auth"
               /\ ret.msg = "2FA password required"
               /\ ret.phone = ret'.phone
               /\ ret'.password = "correct" /\ ret'.ok) =>
               acct'[a].status = "active"]_vars

\* the arguments add_account must reject: a phone number that is not valid,
\* an API id that is no number, a missing API hash, a registered phone number
MustReject(phone, creds) ==
    \/ ~ValidPhone(phone)
    \/ creds # "ok"
    \/ GetAccountByPhone(phone) # 0

\* C29: add_account with an invalid phone number, an API id that is no
\* number, a missing API hash or a phone number that is already registered
\* returns a failure in the step of the call, before its await, and changes
\* nothing: no account in any collection, no client, no connection, no
\* session file, no call left waiting
C29_RejectedBeforeAwait ==
    [][\A p \in Phones \cup {BadPhone}, creds \in Credentials :
         (AddAccountBegin(p, creds) /\ MustReject(p, creds)) =>
            /\ ret'.op = "add_account"
            /\ ret'.phone = p
            /\ ~ret'.ok
            /\ ret'.msg # ""
            /\ adding' = adding
            /\ UNCHANGED <<poolVars, hconn, session_files, savedFile>>]_vars

\* add_account has just rejected a phone number that is registered
C29_Witness ==
    /\ ret.op = "add_account"
    /\ ~ret.ok
    /\ ret.msg = "already exists"
    /\ GetAccountByPhone(ret.phone) # 0

(***************************************************************************)
(* The rule table and the pool.                                            *)
(***************************************************************************)
\* Rules are created for a phone number of the pool or another one, with
\* or without destinations, started, stopped and deleted, while the account
\* is connected and removed.
NextRules ==
    \/ Initialize
    \/ \E p \in Phones, dests \in DestChoices \cup {<< >>} :
         CreateRule(p, dests, << >>)
    \/ \E r \in RuleIds : StartForwarding(r)
    \/ \E r \in RuleIds : StopForwarding(r, TRUE)
    \/ \E r \in RuleIds : DeleteRule(r)
    \/ \E co \in ConnectOutcomes : ConnectAccount(Phone1, co)
    \/ \E h \in DOMAIN hconn : LinkDrop(h)
    \/ \E ds \in BOOLEAN : RemoveAccount(Phone1, ds)

SpecRules == InitFwd /\ [][NextRules]_vars

\* rule row `rule` names an account of the pool and at least one destination
WellFormedRule(rule) ==
    /\ GetAccountByPhone(rule.account_phone) # 0
    /\ rule.destination_chat_ids # << >>

\* C30: every persisted forwarding rule references an account that is in
\* the pool and has at least one destination
C30_RulesReferenceAccounts ==
    \A r \in DOMAIN forwarding_rules : WellFormedRule(forwarding_rules[r])

(***************************************************************************)
(* connect_account split at `await client.connect()`, its first            *)
(* suspension point, so that other pool operations run while it waits.     *)
(***************************************************************************)
MaxConnecting == 2

\* connect_account up to `await client.connect()`: the account is looked
\* up, a missing client is built and put on the record and in the registry
ConnectBegin(phone) ==
    \E a \in {GetAccountByPhone(phone)} :
    /\ Len(connecting) < MaxConnecting
    /\ IF a = 0
       THEN /\ Returns(Result("connect_account", 0, phone, FALSE,
                              "not found"))
            /\ UNCHANGED <<acct, clients, hconn, connecting>>
       ELSE IF acct[a].is_connected
       THEN /\ Returns(Result("connect_account", 0, phone, TRUE,
                              "already connected"))
            /\ UNCHANGED <<acct, clients, hconn, connecting>>
       ELSE \E h \in {IF acct[a].client = 0 THEN NewHandle
                      ELSE acct[a].client} :
            /\ h <= MaxHandles
            /\ acct' = [acct EXCEPT ![a].client = h]
            /\ clients' = IF acct[a].client = 0 THEN Put(clients, phone, h)
                          ELSE clients
            /\ hconn' = IF acct[a].client = 0 THEN Put(hconn, h, FALSE)
                        ELSE hconn
            /\ connecting' = Append(connecting,
                                    [phone |-> phone, account |-> a,
                                     client |-> h])
            /\ UNCHANGED ret
    /\ UNCHANGED <<accounts, active_accounts, limited_accounts,
                   banned_accounts, authorized, source_ok, now, savedFile,
                   engVars, reconnect_tasks, spawning, session_files,
                   shutdown, adding, loopVars, stopped>>

\* `phone in self._reconnect_tasks` (lines 624 and 876)
Supervised(phone) == phone \in DOMAIN task_of

\* the first step of the task that create_task(_auto_reconnect_loop(phone))
\* puts on the ready queue of the event loop
LoopItem(phone) == [kind |-> "loop", phone |-> phone, id |-> 0]

\* connect_account from the return of client.connect() on, for the i-th
\* waiting call: it works on the account object and the client it took
\* before the await
ConnectEnd(i, co) ==
    /\ i \in 1..Len(connecting)
    /\ \E c \in {connecting[i]} :
       \E a \in {c.account} :
       /\ connecting' = SubSeq(connecting, 1, i - 1)
                          \o SubSeq(connecting, i + 1, Len(connecting))
       /\ CASE co = "ok" /\ authorized[c.phone] ->
                 /\ acct' = [acct EXCEPT ![a].is_connected = TRUE,
                                         ![a].status = "active"]
                 /\ active_accounts' = AppendNew(active_accounts, a)
                 /\ limited_accounts' = limited_accounts \ {a}
                 /\ hconn' = Put(hconn, c.client, TRUE)
                 /\ spawning' = IF c.phone \in DOMAIN reconnect_tasks
                                THEN spawning ELSE spawning \cup {c.phone}
                 /\ ready' = IF Supervised(c.phone) THEN ready
                              ELSE Append(ready, LoopItem(c.phone))
                 /\ Returns(Result("connect_account", 0, c.phone, TRUE,
                                   "connected"))
            [] co = "ok" /\ ~authorized[c.phone] ->
                 /\ hconn' = Put(hconn, c.client, FALSE)
                 /\ Returns(Result("connect_account", 0, c.phone, FALSE,
                                   "session invalid"))
                 /\ UNCHANGED <<acct, active_accounts, limited_accounts,
                                spawning, ready>>
            [] co = "flood" ->
                 /\ acct' = [acct EXCEPT ![a].status = "flood_wait",
                                         ![a].flood_until = now + FloodTicks]
                 /\ active_accounts' = RemoveFirst(active_accounts, a)
                 /\ limited_accounts' = limited_accounts \cup {a}
                 /\ Returns(Result("connect_account", 0, c.phone, FALSE,
                                   "flood wait"))
                 /\ UNCHANGED <<hconn, spawning, ready>>
            [] co = "rpc" ->
                 /\ acct[a].error_count < MaxErr
                 /\ acct' = [acct EXCEPT
                               ![a].error_count = acct[a].error_count + 1,
                               ![a].status =
                                  IF acct[a].error_count + 1
                                       >= ConnectErrorLimit
                                  THEN "error" ELSE acct[a].status]
                 /\ active_accounts' =
                       IF acct[a].error_count + 1 >= ConnectErrorLimit
                       THEN RemoveFirst(active_accounts, a)
                       ELSE active_accounts
                 /\ limited_accounts' =
                       IF acct[a].error_count + 1 >= ConnectErrorLimit
                       THEN limited_accounts \cup {a}
                       ELSE limited_accounts
                 /\ Returns(Result("connect_account", 0, c.phone, FALSE,
                                   "rpc error"))
                 /\ UNCHANGED <<hconn, spawning, ready>>
            [] OTHER ->
                 /\ acct[a].error_count < MaxErr
                 /\ acct' = [acct EXCEPT
                               ![a].error_count = acct[a].error_count + 1]
                 /\ active_accounts' = RemoveFirst(active_accounts, a)
                 /\ limited_accounts' = limited_accounts \cup {a}
                 /\ Returns(Result("connect_account", 0, c.phone, FALSE,
                                   "failed to connect"))
                 /\ UNCHANGED <<hconn, spawning, ready>>
    /\ UNCHANGED <<accounts, banned_accounts, clients, authorized,
                   source_ok, now, savedFile, engVars, reconnect_tasks,
                   session_files, shutdown, adding, reconnect_events,
                   event_set, task_of, supervisors, closing, stopped>>

\* The operations whose changes of the active, limited and banned lists
\* stand inside `async with self._config_lock`.
ConfigLocked ==
    {"add_account", "complete_auth", "load_accounts", "disconnect_account",
     "reconnect_account", "remove_account"}

\* Pool operations on one account that overlap: connect_account waiting
\* for its connection while the account is disconnected, removed or given
\* a status, or while a second connect_account is called.
NextLock ==
    \/ ConnectBegin(Phone1)
    \/ \E i \in 1..MaxConnecting, co \in ConnectOutcomes : ConnectEnd(i, co)
    \/ DisconnectAccount(Phone1)
    \/ \E ds \in BOOLEAN : RemoveAccount(Phone1, ds)
    \/ \E s \in {"active", "flood_wait", "banned"} :
         UpdateAccountStatus(Phone1, s)
    \/ \E h \in DOMAIN hconn : LinkDrop(h)

SpecLock == InitLife /\ [][NextLock]_vars

\* a step in which the active, limited or banned list changes
ListsChange ==
    <<active_accounts, limited_accounts, banned_accounts>>' #
        <<active_accounts, limited_accounts, banned_accounts>>

\* C31: operations that mutate one account do not interleave at a
\* suspension point: while connect_account waits for its connection, no
\* other operation changes the record of its account; and the active,
\* limited and banned lists change only in steps of operations that hold
\* the pool's lock around the change.
C31_MutationsHoldLocks ==
    [][/\ \A i \in DOMAIN connecting :
            connecting' = connecting
              => acct'[connecting[i].account] = acct[connecting[i].account]
       /\ ListsChange => ret'.op \in ConfigLocked]_vars

\* the account of the phone is in the pool, its supervisor waits on its
\* event with attempts left, and the link of its client is down
LostConnection(phone) ==
    /\ ~shutdown
    /\ phone \in DOMAIN reconnect_tasks
    /\ reconnect_tasks[phone].pc = "wait"
    /\ reconnect_tasks[phone].attempts < AutoReconnectMaxRetries
    /\ \E a \in {GetAccountByPhone(phone)} :
         /\ a # 0
         /\ acct[a].client # 0
         /\ ~IsConnected(hconn, acct[a].client)

\* a step in which the link of the client of a supervised account drops
DropStep(phone) ==
    /\ phone \in DOMAIN reconnect_tasks
    /\ \E a \in {GetAccountByPhone(phone)} :
         /\ a # 0
         /\ IsConnected(hconn, acct[a].client)
         /\ ~hconn'[acct[a].client]
         /\ UNCHANGED <<poolVars, shutdown>>

\* the supervisor of the phone is about to call reconnect_account, or the
\* reason to do so has gone
AttemptOrExcused(phone) ==
    \/ shutdown
    \/ phone \notin DOMAIN reconnect_tasks
    \/ reconnect_tasks[phone].pc = "sleep"
    \/ reconnect_tasks[phone].attempts >= AutoReconnectMaxRetries
    \/ GetAccountByPhone(phone) = 0
    \/ IsConnected(hconn, acct[GetAccountByPhone(phone)].client)

\* C32: when the link of a supervised account drops, the event of its
\* supervisor is set in that step, and while the pool is not shut down and
\* attempts are left the supervisor eventually makes a reconnect attempt.
C32_DropLeadsToAttempt ==
    /\ [][DropStep(Phone1) => reconnect_tasks'[Phone1].event]_vars
    /\ LostConnection(Phone1) ~> AttemptOrExcused(Phone1)

(***************************************************************************)
(* The fan-out over a store whose writes can fail.  Every write of the     *)
(* fan-out stands in a try block whose `except sqlite3.Error` logs the     *)
(* error and goes on (lines 439-440, 469-470, 486-487).                    *)
(***************************************************************************)
\* the writes of one turn that raise sqlite3.Error: the INSERT of
\* log_forwarded_message, the UPDATE of messages_forwarded, the UPDATE of
\* last_message_id
WriteKinds == {"insert", "counter", "checkpoint"}

\* lines 432-445 on the store, when the writes in `wf` fail
FinalizeRulesW(inv, m, rulesT, init, db, wf) ==
    LET r == inv.rule_id
        rules1 == IF inv.succ > 0 /\ db /\ r \in DOMAIN rulesT
                     /\ "counter" \notin wf
                  THEN [rulesT EXCEPT
                          ![r].messages_forwarded = @ + inv.succ]
                  ELSE rulesT
    IN  IF "checkpoint" \in wf THEN rules1
        ELSE UpdateRuleLastMessageId(rules1, init, db, r, m)

\* one turn of the destination loop, with the writes in `wf` failing
ForwardStepW(d, fo, co, wf) ==
    /\ d \in dispatches
    /\ d.cur # << >>
    /\ d.cur[1].i <= Len(d.cur[1].dests)
    /\ \E secs \in IF fo = "flood" THEN FloodSeconds ELSE {0} :
       \E t \in {ForwardTurn(d.cur[1], d.msg_id, fo, secs,
                             Reconnect(d.cur[1].client, d.cur[1].phone,
                                       co))} :
       \E adv \in {Advance([d EXCEPT !.cur = << >>],
                           FinalizeRulesW(t.inv, d.msg_id, forwarding_rules,
                                          initialized, db_connection, wf),
                           FinalizeSessions(t.inv, d.msg_id,
                                            forwarding_sessions,
                                            db_connection),
                           initialized, db_connection)} :
       /\ Len(t.errors) <= MaxErrLog
       /\ Cardinality(DOMAIN t.cr.hconn) <= MaxHandles
       /\ \A a \in DOMAIN t.cr.acct : t.cr.acct[a].error_count <= MaxErr
       /\ forwarded_messages' = IF "insert" \in wf THEN forwarded_messages
                                ELSE t.log
       /\ forwarding_errors' = t.errors
       /\ acct' = t.cr.acct
       /\ active_accounts' = t.cr.active
       /\ limited_accounts' = t.cr.limited
       /\ clients' = t.cr.clients
       /\ hconn' = t.cr.hconn
       /\ spawning' = t.cr.spawning
       /\ IF t.inv.i > Len(t.inv.dests) /\ ~t.flood
          THEN /\ forwarding_rules' = adv.rules
               /\ forwarding_sessions' = adv.sessions
               /\ dispatches' = (dispatches \ {d})
                                \cup (IF adv.done THEN {} ELSE {adv.d})
          ELSE /\ UNCHANGED <<forwarding_rules, forwarding_sessions>>
               /\ dispatches' = (dispatches \ {d})
                                \cup {[d EXCEPT !.cur = <<t.inv>>]}
    /\ UNCHANGED <<shutdown, adding, connecting, loopVars, reconnect_tasks,
                   session_files, accounts, banned_accounts, authorized,
                   source_ok, now, savedFile, initialized, db_connection,
                   nextRuleId, nextSid, handlers, nextMsgId, restartQ, ret,
                   stopped>>

\* lines 432-445 after a pass whose last turn ended in the rate-limit
\* sleep, with the writes in `wf` failing
FinishFanoutW(d, wf) ==
    /\ d \in dispatches
    /\ d.cur # << >>
    /\ d.cur[1].i > Len(d.cur[1].dests)
    /\ \E adv \in {Advance([d EXCEPT !.cur = << >>],
                           FinalizeRulesW(d.cur[1], d.msg_id,
                                          forwarding_rules, initialized,
                                          db_connection, wf),
                           FinalizeSessions(d.cur[1], d.msg_id,
                                            forwarding_sessions,
                                            db_connection),
                           initialized, db_connection)} :
           /\ forwarding_rules' = adv.rules
           /\ forwarding_sessions' = adv.sessions
           /\ dispatches' = (dispatches \ {d})
                            \cup (IF adv.done THEN {} ELSE {adv.d})
    /\ UNCHANGED <<lifeVars,
                   poolVars, envVars, initialized, db_connection,
                   nextRuleId, forwarded_messages, forwarding_errors,
                   nextSid, handlers, nextMsgId, restartQ, ret, stopped>>

\* A running rule whose messages are fanned out while writes to the store
\* fail now and then; nothing stops the rule or closes the store.
NextStore ==
    \/ \E h \in DOMAIN hconn, text \in Texts : Deliver(h, text)
    \/ \E d \in dispatches : RunHandlers(d)
    \/ \E d \in dispatches, fo \in ForwardOutcomes, co \in ConnectOutcomes,
          wf \in SUBSET WriteKinds : ForwardStepW(d, fo, co, wf)
    \/ \E d \in dispatches, wf \in SUBSET (WriteKinds \ {"insert"}) :
         FinishFanoutW(d, wf)
    \/ \E h \in DOMAIN hconn : LinkDrop(h)

SpecStore == InitFan /\ [][NextStore]_vars

\* the rows of forwarded_messages of rule r
RuleRecords(r) ==
    { i \in 1..Len(forwarded_messages) : forwarded_messages[i].rule_id = r }

\* C33: the session's messages_forwarded and last_message_id never run
\* ahead of the store: the counter is at most the stored counter and at
\* most the number of stored records of the rule, and the checkpoint is at
\* most the stored checkpoint.
C33_SessionNotAheadOfStore ==
    \A k \in DOMAIN forwarding_sessions :
      \E r \in {forwarding_sessions[k].rule_id} :
        r \in DOMAIN forwarding_rules =>
          /\ forwarding_sessions[k].messages_forwarded
               <= forwarding_rules[r].messages_forwarded
          /\ forwarding_sessions[k].messages_forwarded
               <= Cardinality(RuleRecords(r))
          /\ forwarding_sessions[k].last_message_id
               <= forwarding_rules[r].last_message_id

\* the values the usage counter of an account may have before the
\* increment: its value, or 0 when the day has rolled over since its
\* last reset
CounterBase(a) ==
    IF a.last_reset.day < Day(now) THEN {0, a.added_today}
    ELSE {a.added_today}

\* an account record without the fields get_available_account writes
OtherFields(a) ==
    [a EXCEPT !.added_today = 0, !.last_activity = NoTime,
              !.last_reset = [kind |-> "date", day |-> 0]]

\* C34: get_available_account adds one to the usage counter of the account
\* it returns and sets its last_activity; of every other account the
\* counter and last_activity are unchanged, but for the reset of a new day;
\* no other field, list or table changes, and when nothing is returned no
\* counter grows.
C34_SelectionFrame ==
    [][GetStep =>
        /\ UNCHANGED <<accounts, active_accounts, limited_accounts,
                       banned_accounts, clients, envVars, engVars, lifeVars>>
        /\ DOMAIN acct' = DOMAIN acct
        /\ \A a \in DOMAIN acct :
             /\ OtherFields(acct'[a]) = OtherFields(acct[a])
             /\ IF ret'.ok /\ ret'.account = a
                THEN /\ acct'[a].added_today - 1 \in CounterBase(acct[a])
                     /\ acct'[a].last_activity = now
                ELSE /\ acct'[a].added_today \in CounterBase(acct[a])
                     /\ acct'[a].last_activity = acct[a].last_activity]_vars

\* the run d.cur of forward_message_to_destinations is suspended and the
\* session it works on has been taken out of forwarding_sessions, which
\* stop_forwarding, delete_forwarding_rule and close() do
Orphaned(d) ==
    /\ d \in dispatches
    /\ d.cur # << >>
    /\ ~Holds(forwarding_sessions, d.cur[1])

\* the stored checkpoint of rule r, 0 for a rule that has no row
Checkpoint(rulesT, r) ==
    IF r \in DOMAIN rulesT THEN rulesT[r].last_message_id ELSE 0

\* C35: a fan-out pass that was in progress when its rule was stopped or
\* deleted makes no further forward, appends no further row to
\* forwarded_messages and does not advance the stored checkpoint.
C35_StoppedPassForwardsNothing ==
    [][\A d \in dispatches :
         (Orphaned(d) /\ d \notin dispatches') =>
            /\ forwarded_messages' = forwarded_messages
            /\ Checkpoint(forwarding_rules', d.cur[1].rule_id)
                 = Checkpoint(forwarding_rules, d.cur[1].rule_id)
            /\ \A e \in dispatches' :
                 (e.cur # << >> /\ e.cur[1].sid = d.cur[1].sid)
                    => e.cur[1].succ = d.cur[1].succ]_vars

(***************************************************************************)
(* Two messages of one source chat in flight at once: the client creates   *)
(* one task per update, and the tasks interleave at their awaits.          *)
(***************************************************************************)
MaxRaceMsg == 2

\* a new message reaches handle h while the handlers of an earlier one may
\* still be running
DeliverNext(h, text) ==
    /\ nextMsgId <= MaxRaceMsg
    /\ IsConnected(hconn, h)
    /\ HandlerKeys(handlers, h) # << >>
    /\ dispatches' = dispatches \cup
           {[msg_id |-> nextMsgId, text |-> text, fresh |-> TRUE,
             pending |-> HandlerKeys(handlers, h), cur |-> << >>]}
    /\ nextMsgId' = nextMsgId + 1
    /\ UNCHANGED <<lifeVars,
                   poolVars, envVars, initialized, db_connection,
                   forwarding_rules, nextRuleId, forwarded_messages,
                   forwarding_errors, forwarding_sessions, nextSid,
                   handlers, restartQ, ret, stopped>>

NextRace ==
    \/ \E h \in DOMAIN hconn, text \in Texts : DeliverNext(h, text)
    \/ \E d \in dispatches : RunHandlers(d)
    \/ \E d \in dispatches, fo \in {"ok", "flood", "error"} :
         ForwardStep(d, fo, "ok")
    \/ \E d \in dispatches : FinishFanout(d)

SpecRace == InitFan /\ [][NextRace]_vars

\* C36: the stored checkpoint of a rule never decreases, and once the
\* handlers of every delivered message have finished it is the id of the
\* last message that passed the rule's filter.
C36_CheckpointMonotone ==
    [][\A r \in DOMAIN forwarding_rules :
          /\ Checkpoint(forwarding_rules', r)
               >= Checkpoint(forwarding_rules, r)
          /\ (dispatches' = {} /\ Checkpoint(forwarding_rules, r) = MaxRaceMsg)
               => Checkpoint(forwarding_rules', r) = MaxRaceMsg]_vars

\* the accounts in self.active_accounts
ActiveSet == { active_accounts[i] : i \in 1..Len(active_accounts) }

\* the accounts in self.accounts
PoolSet == { accounts[i] : i \in 1..Len(accounts) }

\* C37: the active, limited and banned lists are pairwise disjoint, hold
\* only accounts of self.accounts, and an account of the pool is in the
\* active list exactly when its status is 'active'.
C37_ListsMatchStatus ==
    /\ ActiveSet \cap limited_accounts = {}
    /\ ActiveSet \cap banned_accounts = {}
    /\ limited_accounts \cap banned_accounts = {}
    /\ (ActiveSet \cup limited_accounts \cup banned_accounts)
          \subseteq PoolSet
    /\ \A a \in PoolSet : a \in ActiveSet <=> acct[a].status = "active"

\* the handle on the record of account a is the one self._clients holds
\* for its phone (None on both sides when it has none)
RegistryAgrees(a) == ClientOf(clients, acct[a].phone) = acct[a].client

\* a step in which add_account, complete_auth or reconnect_account
\* returns success for the phone
MadeActive(phone) ==
    /\ ret'.op \in {"add_account", "complete_auth", "reconnect_account"}
    /\ ret'.ok
    /\ ret'.phone = phone
    /\ ret' # ret

\* what start_forwarding asks of the pool for a rule of the phone:
\* get_account_by_phone(phone) and self._clients.get(phone)
Usable(phone) ==
    GetAccountByPhone(phone) # 0 /\ ClientOf(clients, phone) # 0

\* C38: after every step the record of each account of the pool and the
\* client registry hold the same handle, and an account that add_account,
\* complete_auth or reconnect_account has just made active is usable by
\* start_forwarding through the registry.
C38_RegistryMatchesRecords ==
    [][/\ \A a \in PoolSet' : RegistryAgrees(a)'
       /\ \A p \in Phones : MadeActive(p) => Usable(p)']_vars

\* C39: of every rule the stored messages_forwarded counter is the number
\* of rows of forwarded_messages of the rule, and the messages_forwarded of
\* a session of the rule is the stored counter.
C39_CounterMatchesRecords ==
    /\ \A r \in DOMAIN forwarding_rules :
         forwarding_rules[r].messages_forwarded
            = Cardinality(RuleRecords(r))
    /\ \A k \in DOMAIN forwarding_sessions :
         \E r \in {forwarding_sessions[k].rule_id} :
           r \in DOMAIN forwarding_rules =>
             forwarding_sessions[k].messages_forwarded
                = forwarding_rules[r].messages_forwarded

(***************************************************************************)
(* The reconnect supervisors at the grain of the event loop.  asyncio      *)
(* runs the callbacks of its ready queue in the order in which they were   *)
(* queued: create_task queues the first step of the new task, cancel()     *)
(* and Event.set() queue the wake-up of a task that waits, a timer or the  *)
(* network queues it when it fires.  A step runs to the next await that    *)
(* suspends.                                                               *)
(***************************************************************************)
\* supervisor tasks created in a run
MaxSup == 3

\* what `await self.reconnect_account(phone)` does to the supervisor: it
\* suspends in the connection test, or returns at once
AttemptOutcomes == {"ok", "fail", "await"}

TaskItem(t) == [kind |-> "task", phone |-> supervisors[t].phone, id |-> t]

\* the identity of the next task and of the event created with it
NewTask == Cardinality(DOMAIN supervisors) + 1

\* the tasks that have not ended
Live == { t \in DOMAIN supervisors : supervisors[t].pc # "done" }

\* the supervisor s has left its loop; `cleanup`: lines 942-946 run
TaskEnded(s, cleanup) ==
    [pc |-> "done", event |-> s.event, attempts |-> s.attempts,
     es |-> event_set, cleanup |-> cleanup]

\* after reconnect_event.wait() has returned: lines 894-912
TaskAfterWait(s, ev, attempts, es) ==
    IF shutdown \/ GetAccountByPhone(s.phone) = 0
    THEN [TaskEnded(s, TRUE) EXCEPT !.es = es]
    ELSE [pc |-> "sleep", event |-> ev, attempts |-> attempts,
          es |-> es \ {ev}, cleanup |-> FALSE]

\* `while not self._shutdown_event.is_set()` and the wait on the event,
\* which suspends only when the event is not set
TaskLoopHead(s, ev, attempts, es) ==
    IF shutdown THEN [TaskEnded(s, TRUE) EXCEPT !.es = es]
    ELSE IF ev \notin es
    THEN [pc |-> "wait", event |-> ev, attempts |-> attempts, es |-> es,
          cleanup |-> FALSE]
    ELSE TaskAfterWait(s, ev, attempts, es)

\* lines 915-926: the counter after the attempt
TaskAfterAttempt(s, ok) ==
    IF ok THEN TaskLoopHead(s, s.event, 0, event_set)
    ELSE IF s.attempts + 1 >= AutoReconnectMaxRetries
    THEN TaskEnded(s, TRUE)
    ELSE TaskLoopHead(s, s.event, s.attempts + 1,
                      event_set \cup {s.event})

\* one step of _auto_reconnect_task, from where it is to its next
\* suspension.  A task cancelled before its first step never runs; a
\* task cancelled at an await gets CancelledError there and breaks (930).
TaskStep(s, to) ==
    CASE s.pc = "new" ->
           IF s.cancelled THEN TaskEnded(s, FALSE)
           ELSE IF s.phone \notin DOMAIN reconnect_events
           THEN TaskEnded(s, FALSE)    \* KeyError at line 884
           ELSE TaskLoopHead(s, reconnect_events[s.phone], 0, event_set)
      [] s.pc # "new" /\ s.cancelled -> TaskEnded(s, TRUE)
      [] s.pc = "wait" /\ ~s.cancelled ->
           TaskAfterWait(s, s.event, s.attempts, event_set)
      [] s.pc = "sleep" /\ ~s.cancelled /\ to = "await" ->
           [pc |-> "attempt", event |-> s.event, attempts |-> s.attempts,
            es |-> event_set, cleanup |-> FALSE]
      [] OTHER -> TaskAfterAttempt(s, to = "ok")

\* the event loop runs the callback at the head of its queue, here the
\* task of _auto_reconnect_loop(phone), lines 874-880: it has no await
\* between its test and the two registrations
RunLoop ==
    /\ ready # << >>
    /\ Head(ready).kind = "loop"
    /\ \E phone \in {Head(ready).phone} :
         IF Supervised(phone)
         THEN /\ ready' = Tail(ready)
              /\ UNCHANGED <<reconnect_events, task_of, supervisors>>
         ELSE /\ NewTask <= MaxSup
              /\ reconnect_events' = Put(reconnect_events, phone, NewTask)
              /\ task_of' = Put(task_of, phone, NewTask)
              /\ supervisors' =
                    Put(supervisors, NewTask,
                        [phone |-> phone, pc |-> "new", event |-> 0,
                         attempts |-> 0, queued |-> TRUE,
                         cancelled |-> FALSE])
              /\ ready' = Append(Tail(ready),
                                 [kind |-> "task", phone |-> phone,
                                  id |-> NewTask])
    /\ UNCHANGED <<poolVars, envVars, engVars, reconnect_tasks, spawning,
                   session_files, shutdown, adding, connecting, event_set,
                   closing, ret, stopped>>

\* the callback at the head of the queue is a step of a supervisor
RunTask(to) ==
    /\ ready # << >>
    /\ Head(ready).kind = "task"
    /\ \E t \in {Head(ready).id} :
       \E s \in {supervisors[t]} :
         /\ to = "ok" \/ (s.pc \in {"sleep", "attempt"} /\ ~s.cancelled)
         /\ to = "await" => s.pc = "sleep"
         /\ \E r \in {TaskStep(s, to)} :
              /\ supervisors' =
                    [supervisors EXCEPT
                       ![t] = [s EXCEPT !.pc = r.pc, !.event = r.event,
                                        !.attempts = r.attempts,
                                        !.queued = FALSE]]
              /\ event_set' = r.es
              /\ reconnect_events' =
                    IF r.cleanup THEN Del(reconnect_events, s.phone)
                    ELSE reconnect_events
              /\ task_of' = IF r.cleanup THEN Del(task_of, s.phone)
                            ELSE task_of
    /\ ready' = Tail(ready)
    /\ UNCHANGED <<poolVars, envVars, engVars, reconnect_tasks, spawning,
                   session_files, shutdown, adding, connecting, closing,
                   ret, stopped>>

\* the wake-ups of the tasks in T, queued in the order of the task table
WakeAll(T) ==
    [i \in 1..Cardinality(T) |-> TaskItem(SortedSeq(T)[i])]

\* the sleep of a supervisor ends, or its reconnect_account returns
Wake(t) ==
    /\ t \in Live
    /\ supervisors[t].pc \in {"sleep", "attempt"}
    /\ ~supervisors[t].queued
    /\ supervisors' = [supervisors EXCEPT ![t].queued = TRUE]
    /\ ready' = Append(ready, TaskItem(t))
    /\ UNCHANGED <<poolVars, envVars, engVars, reconnect_tasks, spawning,
                   session_files, shutdown, adding, connecting,
                   reconnect_events, event_set, task_of, closing, ret,
                   stopped>>

\* the event of the phone is set from outside the task
SetEvent(phone) ==
    /\ phone \in DOMAIN reconnect_events
    /\ reconnect_events[phone] \notin event_set
    /\ event_set' = event_set \cup {reconnect_events[phone]}
    /\ \E T \in {{ t \in Live : /\ supervisors[t].pc = "wait"
                                /\ supervisors[t].event
                                     = reconnect_events[phone]
                                /\ ~supervisors[t].queued }} :
         /\ supervisors' = [t \in DOMAIN supervisors |->
                              IF t \in T
                              THEN [supervisors[t] EXCEPT !.queued = TRUE]
                              ELSE supervisors[t]]
         /\ ready' = ready \o WakeAll(T)
    /\ UNCHANGED <<poolVars, envVars, engVars, reconnect_tasks, spawning,
                   session_files, shutdown, adding, connecting,
                   reconnect_events, task_of, closing, ret, stopped>>

\* the step of close() that runs once its disconnect() calls are over
CloseItem == [kind |-> "close", phone |-> << >>, id |-> 0]

\* lines 1160-1168 of close(): the collections are cleared
ClearAll ==
    /\ accounts' = << >>
    /\ active_accounts' = << >>
    /\ limited_accounts' = {}
    /\ banned_accounts' = {}
    /\ clients' = [p \in {} |-> 0]
    /\ task_of' = [p \in {} |-> 0]
    /\ reconnect_events' = [p \in {} |-> 0]
    /\ reconnect_tasks' = NoTasks
    /\ Returns(Result("close", 0, << >>, TRUE, ""))

\* close() up to its first suspension: the shutdown event is set and every
\* task of the table is cancelled (lines 1145-1149); without a connected
\* client nothing is awaited and the collections are cleared at once
CloseBegin ==
    /\ ~closing
    /\ \A i \in 1..Len(ready) : ready[i].kind # "close"
    /\ shutdown' = TRUE
    /\ \E T \in {{ task_of[p] : p \in DOMAIN task_of } \cap Live} :
         /\ supervisors' = [t \in DOMAIN supervisors |->
                              IF t \in T
                              THEN [supervisors[t] EXCEPT
                                      !.cancelled = TRUE, !.queued = TRUE]
                              ELSE supervisors[t]]
         /\ ready' = ready \o WakeAll({ t \in T : ~supervisors[t].queued })
    /\ IF ClosedHandles = {}
       THEN /\ ClearAll
            /\ UNCHANGED closing
       ELSE /\ closing' = TRUE
            /\ UNCHANGED <<accounts, active_accounts, limited_accounts,
                           banned_accounts, clients, task_of,
                           reconnect_events, reconnect_tasks, ret>>
    /\ UNCHANGED <<acct, envVars, engVars, spawning, session_files, adding,
                   connecting, event_set, stopped>>

\* the disconnect() calls of close() are over (1151-1158): a handle in
\* `raises` stays up, its error is logged; close() is queued to go on
DisconnectDone(raises) ==
    /\ closing
    /\ raises \subseteq ClosedHandles
    /\ closing' = FALSE
    /\ hconn' = [h \in DOMAIN hconn |->
                   IF h \in ClosedHandles \ raises THEN FALSE ELSE hconn[h]]
    /\ ready' = Append(ready, CloseItem)
    /\ UNCHANGED <<accounts, acct, active_accounts, limited_accounts,
                   banned_accounts, clients, authorized, source_ok, now,
                   savedFile, engVars, reconnect_tasks, spawning,
                   session_files, shutdown, adding, connecting,
                   reconnect_events, event_set, task_of, supervisors, ret,
                   stopped>>

\* the callback at the head of the queue is the rest of close()
RunClose ==
    /\ ready # << >>
    /\ Head(ready).kind = "close"
    /\ ready' = Tail(ready)
    /\ ClearAll
    /\ UNCHANGED <<acct, envVars, engVars, spawning, session_files,
                   shutdown, adding, connecting, event_set, supervisors,
                   closing, stopped>>

\* One account whose connect_account calls create supervisors, whose
\* links drop, which is removed, and a pool that is closed, at any moment
\* between two callbacks of the event loop.
NextSup ==
    \/ ConnectBegin(Phone1)
    \/ \E i \in 1..MaxConnecting, co \in ConnectOutcomes : ConnectEnd(i, co)
    \/ RunLoop
    \/ \E to \in AttemptOutcomes : RunTask(to)
    \/ RunClose
    \/ \E t \in DOMAIN supervisors : Wake(t)
    \/ SetEvent(Phone1)
    \/ CloseBegin
    \/ \E raises \in SUBSET DOMAIN hconn : DisconnectDone(raises)
    \/ \E ds \in BOOLEAN : RemoveAccount(Phone1, ds)
    \/ \E h \in DOMAIN hconn : LinkDrop(h)

SpecSup == InitLife /\ [][NextSup]_vars

\* the supervisor t ends in this step
Finishes(t) ==
    /\ t \in Live
    /\ supervisors'[t].pc = "done"

\* C40: an account never has two supervisor tasks, the task table and the
\* event table have the same keys, and a supervisor that ends removes no
\* table entry but its own.
C40_OneSupervisorOwnEntries ==
    /\ [](\A p \in Phones :
            Cardinality({ t \in Live : supervisors[t].phone = p }) <= 1)
    /\ [](DOMAIN task_of = DOMAIN reconnect_events)
    /\ [][\A t \in DOMAIN supervisors :
            Finishes(t) =>
              /\ \A p \in (DOMAIN task_of) \ (DOMAIN task_of') :
                    task_of[p] = t
              /\ \A p \in (DOMAIN reconnect_events)
                             \ (DOMAIN reconnect_events') :
                    reconnect_events[p] = t]_vars

====
